---- MODULE Spec2Model ----
(***************************************************************************)
(* A model of the clinic assistant: the booking dialogue, the commands and *)
(* the patient store of src/main.py (MedicalBot), and the catch-all        *)
(* handler with its Groq-then-Gemini engine of                             *)
(* src/medical_bot_complete.py (HakeemBot).                                *)
(*                                                                         *)
(* A text is a sequence of characters, each character a one-character      *)
(* string; a character outside ASCII, a control character other than      *)
(* "\n", "\t", "\r", and the backtick are written by their code point      *)
(* ("U+2705" is the check mark).                                           *)
(***************************************************************************)
EXTENDS Integers, Sequences, FiniteSets, TLC

\* ------------------------------------------------------------------ texts
\* Button labels and patterns of src/main.py, and sample user inputs.
T_BookAppointment == <<"U+1F4C5", " ", "B", "o", "o", "k", " ", "A", "p", "p", "o", "i", "n", "t", "m", "e", "n", "t">>
T_UpdateInfo == <<"U", "p", "d", "a", "t", "e", " ", "I", "n", "f", "o">>
T_ProceedWithBooking == <<"P", "r", "o", "c", "e", "e", "d", " ", "w", "i", "t", "h", " ", "B", "o", "o", "k", "i", "n", "g">>
T_Cancel == <<"C", "a", "n", "c", "e", "l">>
T_SlashCancel == <<"/", "c", "a", "n", "c", "e", "l">>
T_Confirm == <<"U+2705", " ", "C", "o", "n", "f", "i", "r", "m">>
T_CrossCancel == <<"U+274C", " ", "C", "a", "n", "c", "e", "l">>
T_OK == <<"O", "K">>
T_ok == <<"o", "k">>
T_Tamam == <<"U+062A", "U+0645", "U+0627", "U+0645">>
T_Check == <<"U+2705">>
T_no == <<"n", "o">>
T_Ilghaa == <<"U+0625", "U+0644", "U+063A", "U+0627", "U+0621">>
T_Cross == <<"U+274C">>
T_maybe == <<"m", "a", "y", "b", "e">>
T_Cairo == <<"C", "a", "i", "r", "o">>
T_SHERBIN == <<"S", "H", "E", "R", "B", "I", "N">>
T_Giza == <<"G", "i", "z", "a">>
T_A == <<"A">>
T_Al == <<"A", "l">>
T_Phone7 == <<"0", "1", "1", "2", "1", "1", "7">>
T_Phone8 == <<"0", "1", "1", "2", "1", "1", "7", "3">>
T_Phone8b == <<"0", "1", "1", "2", "-", "1", "1", "7", "4">>
T_PhoneDashes == <<"0", "1", "-", "1", " ", "2">>
T_ASAP == <<"A", "S", "A", "P">>
T_SlashStart == <<"/", "s", "t", "a", "r", "t">>
T_SlashHelp == <<"/", "h", "e", "l", "p">>
T_SlashProfile == <<"/", "p", "r", "o", "f", "i", "l", "e">>
T_SlashStats == <<"/", "s", "t", "a", "t", "s">>
T_SlashStatus == <<"/", "s", "t", "a", "t", "u", "s">>
T_SlashFoo == <<"/", "f", "o", "o">>
T_MyProfile == <<"U+1F464", " ", "M", "y", " ", "P", "r", "o", "f", "i", "l", "e">>
T_Help == <<"U+2753", " ", "H", "e", "l", "p">>
T_Home == <<"U+1F3E0", " ", "H", "o", "m", "e">>
T_MedicalAnalysis == <<"U+1F52C", " ", "M", "e", "d", "i", "c", "a", "l", " ", "A", "n", "a", "l", "y", "s", "i", "s">>
T_ChatWithAI == <<"U+1F4AC", " ", "C", "h", "a", "t", " ", "w", "i", "t", "h", " ", "A", "I">>
T_Chat == <<"U+1F4AC", " ", "C", "h", "a", "t">>
T_GroqFastChat == <<"G", "r", "o", "q", " ", "-", " ", "F", "a", "s", "t", " ", "C", "h", "a", "t">>
T_GeminiDeepAnalysis == <<"G", "e", "m", "i", "n", "i", " ", "-", " ", "D", "e", "e", "p", " ", "A", "n", "a", "l", "y", "s", "i", "s">>
T_AskAnotherQuestion == <<"A", "s", "k", " ", "A", "n", "o", "t", "h", "e", "r", " ", "Q", "u", "e", "s", "t", "i", "o", "n">>
T_SwitchMode == <<"S", "w", "i", "t", "c", "h", " ", "M", "o", "d", "e">>
T_GoHome == <<"G", "o", " ", "H", "o", "m", "e">>
T_ExitChat == <<"E", "x", "i", "t", " ", "C", "h", "a", "t">>
T_CAIRO == <<"C", "A", "I", "R", "O">>
T_sherbin == <<"s", "h", "e", "r", "b", "i", "n">>

\* --------------------------------------------------------- string helpers
UpperCase == <<"A","B","C","D","E","F","G","H","I","J","K","L","M",
               "N","O","P","Q","R","S","T","U","V","W","X","Y","Z">>
LowerCase == <<"a","b","c","d","e","f","g","h","i","j","k","l","m",
               "n","o","p","q","r","s","t","u","v","w","x","y","z">>
Digits == <<"0","1","2","3","4","5","6","7","8","9">>

\* str.lower(): every character that has a lower-case form of
\* its own, paired with that form (a text, U+0130 having one of two
\* characters).
LowerPairs == {
    <<"A", <<"a">>>>, <<"B", <<"b">>>>, <<"C", <<"c">>>>, <<"D", <<"d">>>>, <<"E", <<"e">>>>,
    <<"F", <<"f">>>>, <<"G", <<"g">>>>, <<"H", <<"h">>>>, <<"I", <<"i">>>>, <<"J", <<"j">>>>,
    <<"K", <<"k">>>>, <<"L", <<"l">>>>, <<"M", <<"m">>>>, <<"N", <<"n">>>>, <<"O", <<"o">>>>,
    <<"P", <<"p">>>>, <<"Q", <<"q">>>>, <<"R", <<"r">>>>, <<"S", <<"s">>>>, <<"T", <<"t">>>>,
    <<"U", <<"u">>>>, <<"V", <<"v">>>>, <<"W", <<"w">>>>, <<"X", <<"x">>>>, <<"Y", <<"y">>>>,
    <<"Z", <<"z">>>>, <<"U+00C0", <<"U+00E0">>>>, <<"U+00C1", <<"U+00E1">>>>, <<"U+00C2",
    <<"U+00E2">>>>, <<"U+00C3", <<"U+00E3">>>>, <<"U+00C4", <<"U+00E4">>>>, <<"U+00C5",
    <<"U+00E5">>>>, <<"U+00C6", <<"U+00E6">>>>, <<"U+00C7", <<"U+00E7">>>>, <<"U+00C8",
    <<"U+00E8">>>>, <<"U+00C9", <<"U+00E9">>>>, <<"U+00CA", <<"U+00EA">>>>, <<"U+00CB",
    <<"U+00EB">>>>, <<"U+00CC", <<"U+00EC">>>>, <<"U+00CD", <<"U+00ED">>>>, <<"U+00CE",
    <<"U+00EE">>>>, <<"U+00CF", <<"U+00EF">>>>, <<"U+00D0", <<"U+00F0">>>>, <<"U+00D1",
    <<"U+00F1">>>>, <<"U+00D2", <<"U+00F2">>>>, <<"U+00D3", <<"U+00F3">>>>, <<"U+00D4",
    <<"U+00F4">>>>, <<"U+00D5", <<"U+00F5">>>>, <<"U+00D6", <<"U+00F6">>>>, <<"U+00D8",
    <<"U+00F8">>>>, <<"U+00D9", <<"U+00F9">>>>, <<"U+00DA", <<"U+00FA">>>>, <<"U+00DB",
    <<"U+00FB">>>>, <<"U+00DC", <<"U+00FC">>>>, <<"U+00DD", <<"U+00FD">>>>, <<"U+00DE",
    <<"U+00FE">>>>, <<"U+0100", <<"U+0101">>>>, <<"U+0102", <<"U+0103">>>>, <<"U+0104",
    <<"U+0105">>>>, <<"U+0106", <<"U+0107">>>>, <<"U+0108", <<"U+0109">>>>, <<"U+010A",
    <<"U+010B">>>>, <<"U+010C", <<"U+010D">>>>, <<"U+010E", <<"U+010F">>>>, <<"U+0110",
    <<"U+0111">>>>, <<"U+0112", <<"U+0113">>>>, <<"U+0114", <<"U+0115">>>>, <<"U+0116",
    <<"U+0117">>>>, <<"U+0118", <<"U+0119">>>>, <<"U+011A", <<"U+011B">>>>, <<"U+011C",
    <<"U+011D">>>>, <<"U+011E", <<"U+011F">>>>, <<"U+0120", <<"U+0121">>>>, <<"U+0122",
    <<"U+0123">>>>, <<"U+0124", <<"U+0125">>>>, <<"U+0126", <<"U+0127">>>>, <<"U+0128",
    <<"U+0129">>>>, <<"U+012A", <<"U+012B">>>>, <<"U+012C", <<"U+012D">>>>, <<"U+012E",
    <<"U+012F">>>>, <<"U+0130", <<"i", "U+0307">>>>, <<"U+0132", <<"U+0133">>>>, <<"U+0134",
    <<"U+0135">>>>, <<"U+0136", <<"U+0137">>>>, <<"U+0139", <<"U+013A">>>>, <<"U+013B",
    <<"U+013C">>>>, <<"U+013D", <<"U+013E">>>>, <<"U+013F", <<"U+0140">>>>, <<"U+0141",
    <<"U+0142">>>>, <<"U+0143", <<"U+0144">>>>, <<"U+0145", <<"U+0146">>>>, <<"U+0147",
    <<"U+0148">>>>, <<"U+014A", <<"U+014B">>>>, <<"U+014C", <<"U+014D">>>>, <<"U+014E",
    <<"U+014F">>>>, <<"U+0150", <<"U+0151">>>>, <<"U+0152", <<"U+0153">>>>, <<"U+0154",
    <<"U+0155">>>>, <<"U+0156", <<"U+0157">>>>, <<"U+0158", <<"U+0159">>>>, <<"U+015A",
    <<"U+015B">>>>, <<"U+015C", <<"U+015D">>>>, <<"U+015E", <<"U+015F">>>>, <<"U+0160",
    <<"U+0161">>>>, <<"U+0162", <<"U+0163">>>>, <<"U+0164", <<"U+0165">>>>, <<"U+0166",
    <<"U+0167">>>>, <<"U+0168", <<"U+0169">>>>, <<"U+016A", <<"U+016B">>>>, <<"U+016C",
    <<"U+016D">>>>, <<"U+016E", <<"U+016F">>>>, <<"U+0170", <<"U+0171">>>>, <<"U+0172",
    <<"U+0173">>>>, <<"U+0174", <<"U+0175">>>>, <<"U+0176", <<"U+0177">>>>, <<"U+0178",
    <<"U+00FF">>>>, <<"U+0179", <<"U+017A">>>>, <<"U+017B", <<"U+017C">>>>, <<"U+017D",
    <<"U+017E">>>>, <<"U+0181", <<"U+0253">>>>, <<"U+0182", <<"U+0183">>>>, <<"U+0184",
    <<"U+0185">>>>, <<"U+0186", <<"U+0254">>>>, <<"U+0187", <<"U+0188">>>>, <<"U+0189",
    <<"U+0256">>>>, <<"U+018A", <<"U+0257">>>>, <<"U+018B", <<"U+018C">>>>, <<"U+018E",
    <<"U+01DD">>>>, <<"U+018F", <<"U+0259">>>>, <<"U+0190", <<"U+025B">>>>, <<"U+0191",
    <<"U+0192">>>>, <<"U+0193", <<"U+0260">>>>, <<"U+0194", <<"U+0263">>>>, <<"U+0196",
    <<"U+0269">>>>, <<"U+0197", <<"U+0268">>>>, <<"U+0198", <<"U+0199">>>>, <<"U+019C",
    <<"U+026F">>>>, <<"U+019D", <<"U+0272">>>>, <<"U+019F", <<"U+0275">>>>, <<"U+01A0",
    <<"U+01A1">>>>, <<"U+01A2", <<"U+01A3">>>>, <<"U+01A4", <<"U+01A5">>>>, <<"U+01A6",
    <<"U+0280">>>>, <<"U+01A7", <<"U+01A8">>>>, <<"U+01A9", <<"U+0283">>>>, <<"U+01AC",
    <<"U+01AD">>>>, <<"U+01AE", <<"U+0288">>>>, <<"U+01AF", <<"U+01B0">>>>, <<"U+01B1",
    <<"U+028A">>>>, <<"U+01B2", <<"U+028B">>>>, <<"U+01B3", <<"U+01B4">>>>, <<"U+01B5",
    <<"U+01B6">>>>, <<"U+01B7", <<"U+0292">>>>, <<"U+01B8", <<"U+01B9">>>>, <<"U+01BC",
    <<"U+01BD">>>>, <<"U+01C4", <<"U+01C6">>>>, <<"U+01C5", <<"U+01C6">>>>, <<"U+01C7",
    <<"U+01C9">>>>, <<"U+01C8", <<"U+01C9">>>>, <<"U+01CA", <<"U+01CC">>>>, <<"U+01CB",
    <<"U+01CC">>>>, <<"U+01CD", <<"U+01CE">>>>, <<"U+01CF", <<"U+01D0">>>>, <<"U+01D1",
    <<"U+01D2">>>>, <<"U+01D3", <<"U+01D4">>>>, <<"U+01D5", <<"U+01D6">>>>, <<"U+01D7",
    <<"U+01D8">>>>, <<"U+01D9", <<"U+01DA">>>>, <<"U+01DB", <<"U+01DC">>>>, <<"U+01DE",
    <<"U+01DF">>>>, <<"U+01E0", <<"U+01E1">>>>, <<"U+01E2", <<"U+01E3">>>>, <<"U+01E4",
    <<"U+01E5">>>>, <<"U+01E6", <<"U+01E7">>>>, <<"U+01E8", <<"U+01E9">>>>, <<"U+01EA",
    <<"U+01EB">>>>, <<"U+01EC", <<"U+01ED">>>>, <<"U+01EE", <<"U+01EF">>>>, <<"U+01F1",
    <<"U+01F3">>>>, <<"U+01F2", <<"U+01F3">>>>, <<"U+01F4", <<"U+01F5">>>>, <<"U+01F6",
    <<"U+0195">>>>, <<"U+01F7", <<"U+01BF">>>>, <<"U+01F8", <<"U+01F9">>>>, <<"U+01FA",
    <<"U+01FB">>>>, <<"U+01FC", <<"U+01FD">>>>, <<"U+01FE", <<"U+01FF">>>>, <<"U+0200",
    <<"U+0201">>>>, <<"U+0202", <<"U+0203">>>>, <<"U+0204", <<"U+0205">>>>, <<"U+0206",
    <<"U+0207">>>>, <<"U+0208", <<"U+0209">>>>, <<"U+020A", <<"U+020B">>>>, <<"U+020C",
    <<"U+020D">>>>, <<"U+020E", <<"U+020F">>>>, <<"U+0210", <<"U+0211">>>>, <<"U+0212",
    <<"U+0213">>>>, <<"U+0214", <<"U+0215">>>>, <<"U+0216", <<"U+0217">>>>, <<"U+0218",
    <<"U+0219">>>>, <<"U+021A", <<"U+021B">>>>, <<"U+021C", <<"U+021D">>>>, <<"U+021E",
    <<"U+021F">>>>, <<"U+0220", <<"U+019E">>>>, <<"U+0222", <<"U+0223">>>>, <<"U+0224",
    <<"U+0225">>>>, <<"U+0226", <<"U+0227">>>>, <<"U+0228", <<"U+0229">>>>, <<"U+022A",
    <<"U+022B">>>>, <<"U+022C", <<"U+022D">>>>, <<"U+022E", <<"U+022F">>>>, <<"U+0230",
    <<"U+0231">>>>, <<"U+0232", <<"U+0233">>>>, <<"U+023A", <<"U+2C65">>>>, <<"U+023B",
    <<"U+023C">>>>, <<"U+023D", <<"U+019A">>>>, <<"U+023E", <<"U+2C66">>>>, <<"U+0241",
    <<"U+0242">>>>, <<"U+0243", <<"U+0180">>>>, <<"U+0244", <<"U+0289">>>>, <<"U+0245",
    <<"U+028C">>>>, <<"U+0246", <<"U+0247">>>>, <<"U+0248", <<"U+0249">>>>, <<"U+024A",
    <<"U+024B">>>>, <<"U+024C", <<"U+024D">>>>, <<"U+024E", <<"U+024F">>>>, <<"U+0370",
    <<"U+0371">>>>, <<"U+0372", <<"U+0373">>>>, <<"U+0376", <<"U+0377">>>>, <<"U+037F",
    <<"U+03F3">>>>, <<"U+0386", <<"U+03AC">>>>, <<"U+0388", <<"U+03AD">>>>, <<"U+0389",
    <<"U+03AE">>>>, <<"U+038A", <<"U+03AF">>>>, <<"U+038C", <<"U+03CC">>>>, <<"U+038E",
    <<"U+03CD">>>>, <<"U+038F", <<"U+03CE">>>>, <<"U+0391", <<"U+03B1">>>>, <<"U+0392",
    <<"U+03B2">>>>, <<"U+0393", <<"U+03B3">>>>, <<"U+0394", <<"U+03B4">>>>, <<"U+0395",
    <<"U+03B5">>>>, <<"U+0396", <<"U+03B6">>>>, <<"U+0397", <<"U+03B7">>>>, <<"U+0398",
    <<"U+03B8">>>>, <<"U+0399", <<"U+03B9">>>>, <<"U+039A", <<"U+03BA">>>>, <<"U+039B",
    <<"U+03BB">>>>, <<"U+039C", <<"U+03BC">>>>, <<"U+039D", <<"U+03BD">>>>, <<"U+039E",
    <<"U+03BE">>>>, <<"U+039F", <<"U+03BF">>>>, <<"U+03A0", <<"U+03C0">>>>, <<"U+03A1",
    <<"U+03C1">>>>, <<"U+03A3", <<"U+03C3">>>>, <<"U+03A4", <<"U+03C4">>>>, <<"U+03A5",
    <<"U+03C5">>>>, <<"U+03A6", <<"U+03C6">>>>, <<"U+03A7", <<"U+03C7">>>>, <<"U+03A8",
    <<"U+03C8">>>>, <<"U+03A9", <<"U+03C9">>>>, <<"U+03AA", <<"U+03CA">>>>, <<"U+03AB",
    <<"U+03CB">>>>, <<"U+03CF", <<"U+03D7">>>>, <<"U+03D8", <<"U+03D9">>>>, <<"U+03DA",
    <<"U+03DB">>>>, <<"U+03DC", <<"U+03DD">>>>, <<"U+03DE", <<"U+03DF">>>>, <<"U+03E0",
    <<"U+03E1">>>>, <<"U+03E2", <<"U+03E3">>>>, <<"U+03E4", <<"U+03E5">>>>, <<"U+03E6",
    <<"U+03E7">>>>, <<"U+03E8", <<"U+03E9">>>>, <<"U+03EA", <<"U+03EB">>>>, <<"U+03EC",
    <<"U+03ED">>>>, <<"U+03EE", <<"U+03EF">>>>, <<"U+03F4", <<"U+03B8">>>>, <<"U+03F7",
    <<"U+03F8">>>>, <<"U+03F9", <<"U+03F2">>>>, <<"U+03FA", <<"U+03FB">>>>, <<"U+03FD",
    <<"U+037B">>>>, <<"U+03FE", <<"U+037C">>>>, <<"U+03FF", <<"U+037D">>>>, <<"U+0400",
    <<"U+0450">>>>, <<"U+0401", <<"U+0451">>>>, <<"U+0402", <<"U+0452">>>>, <<"U+0403",
    <<"U+0453">>>>, <<"U+0404", <<"U+0454">>>>, <<"U+0405", <<"U+0455">>>>, <<"U+0406",
    <<"U+0456">>>>, <<"U+0407", <<"U+0457">>>>, <<"U+0408", <<"U+0458">>>>, <<"U+0409",
    <<"U+0459">>>>, <<"U+040A", <<"U+045A">>>>, <<"U+040B", <<"U+045B">>>>, <<"U+040C",
    <<"U+045C">>>>, <<"U+040D", <<"U+045D">>>>, <<"U+040E", <<"U+045E">>>>, <<"U+040F",
    <<"U+045F">>>>, <<"U+0410", <<"U+0430">>>>, <<"U+0411", <<"U+0431">>>>, <<"U+0412",
    <<"U+0432">>>>, <<"U+0413", <<"U+0433">>>>, <<"U+0414", <<"U+0434">>>>, <<"U+0415",
    <<"U+0435">>>>, <<"U+0416", <<"U+0436">>>>, <<"U+0417", <<"U+0437">>>>, <<"U+0418",
    <<"U+0438">>>>, <<"U+0419", <<"U+0439">>>>, <<"U+041A", <<"U+043A">>>>, <<"U+041B",
    <<"U+043B">>>>, <<"U+041C", <<"U+043C">>>>, <<"U+041D", <<"U+043D">>>>, <<"U+041E",
    <<"U+043E">>>>, <<"U+041F", <<"U+043F">>>>, <<"U+0420", <<"U+0440">>>>, <<"U+0421",
    <<"U+0441">>>>, <<"U+0422", <<"U+0442">>>>, <<"U+0423", <<"U+0443">>>>, <<"U+0424",
    <<"U+0444">>>>, <<"U+0425", <<"U+0445">>>>, <<"U+0426", <<"U+0446">>>>, <<"U+0427",
    <<"U+0447">>>>, <<"U+0428", <<"U+0448">>>>, <<"U+0429", <<"U+0449">>>>, <<"U+042A",
    <<"U+044A">>>>, <<"U+042B", <<"U+044B">>>>, <<"U+042C", <<"U+044C">>>>, <<"U+042D",
    <<"U+044D">>>>, <<"U+042E", <<"U+044E">>>>, <<"U+042F", <<"U+044F">>>>, <<"U+0460",
    <<"U+0461">>>>, <<"U+0462", <<"U+0463">>>>, <<"U+0464", <<"U+0465">>>>, <<"U+0466",
    <<"U+0467">>>>, <<"U+0468", <<"U+0469">>>>, <<"U+046A", <<"U+046B">>>>, <<"U+046C",
    <<"U+046D">>>>, <<"U+046E", <<"U+046F">>>>, <<"U+0470", <<"U+0471">>>>, <<"U+0472",
    <<"U+0473">>>>, <<"U+0474", <<"U+0475">>>>, <<"U+0476", <<"U+0477">>>>, <<"U+0478",
    <<"U+0479">>>>, <<"U+047A", <<"U+047B">>>>, <<"U+047C", <<"U+047D">>>>, <<"U+047E",
    <<"U+047F">>>>, <<"U+0480", <<"U+0481">>>>, <<"U+048A", <<"U+048B">>>>, <<"U+048C",
    <<"U+048D">>>>, <<"U+048E", <<"U+048F">>>>, <<"U+0490", <<"U+0491">>>>, <<"U+0492",
    <<"U+0493">>>>, <<"U+0494", <<"U+0495">>>>, <<"U+0496", <<"U+0497">>>>, <<"U+0498",
    <<"U+0499">>>>, <<"U+049A", <<"U+049B">>>>, <<"U+049C", <<"U+049D">>>>, <<"U+049E",
    <<"U+049F">>>>, <<"U+04A0", <<"U+04A1">>>>, <<"U+04A2", <<"U+04A3">>>>, <<"U+04A4",
    <<"U+04A5">>>>, <<"U+04A6", <<"U+04A7">>>>, <<"U+04A8", <<"U+04A9">>>>, <<"U+04AA",
    <<"U+04AB">>>>, <<"U+04AC", <<"U+04AD">>>>, <<"U+04AE", <<"U+04AF">>>>, <<"U+04B0",
    <<"U+04B1">>>>, <<"U+04B2", <<"U+04B3">>>>, <<"U+04B4", <<"U+04B5">>>>, <<"U+04B6",
    <<"U+04B7">>>>, <<"U+04B8", <<"U+04B9">>>>, <<"U+04BA", <<"U+04BB">>>>, <<"U+04BC",
    <<"U+04BD">>>>, <<"U+04BE", <<"U+04BF">>>>, <<"U+04C0", <<"U+04CF">>>>, <<"U+04C1",
    <<"U+04C2">>>>, <<"U+04C3", <<"U+04C4">>>>, <<"U+04C5", <<"U+04C6">>>>, <<"U+04C7",
    <<"U+04C8">>>>, <<"U+04C9", <<"U+04CA">>>>, <<"U+04CB", <<"U+04CC">>>>, <<"U+04CD",
    <<"U+04CE">>>>, <<"U+04D0", <<"U+04D1">>>>, <<"U+04D2", <<"U+04D3">>>>, <<"U+04D4",
    <<"U+04D5">>>>, <<"U+04D6", <<"U+04D7">>>>, <<"U+04D8", <<"U+04D9">>>>, <<"U+04DA",
    <<"U+04DB">>>>, <<"U+04DC", <<"U+04DD">>>>, <<"U+04DE", <<"U+04DF">>>>, <<"U+04E0",
    <<"U+04E1">>>>, <<"U+04E2", <<"U+04E3">>>>, <<"U+04E4", <<"U+04E5">>>>, <<"U+04E6",
    <<"U+04E7">>>>, <<"U+04E8", <<"U+04E9">>>>, <<"U+04EA", <<"U+04EB">>>>, <<"U+04EC",
    <<"U+04ED">>>>, <<"U+04EE", <<"U+04EF">>>>, <<"U+04F0", <<"U+04F1">>>>, <<"U+04F2",
    <<"U+04F3">>>>, <<"U+04F4", <<"U+04F5">>>>, <<"U+04F6", <<"U+04F7">>>>, <<"U+04F8",
    <<"U+04F9">>>>, <<"U+04FA", <<"U+04FB">>>>, <<"U+04FC", <<"U+04FD">>>>, <<"U+04FE",
    <<"U+04FF">>>>, <<"U+0500", <<"U+0501">>>>, <<"U+0502", <<"U+0503">>>>, <<"U+0504",
    <<"U+0505">>>>, <<"U+0506", <<"U+0507">>>>, <<"U+0508", <<"U+0509">>>>, <<"U+050A",
    <<"U+050B">>>>, <<"U+050C", <<"U+050D">>>>, <<"U+050E", <<"U+050F">>>>, <<"U+0510",
    <<"U+0511">>>>, <<"U+0512", <<"U+0513">>>>, <<"U+0514", <<"U+0515">>>>, <<"U+0516",
    <<"U+0517">>>>, <<"U+0518", <<"U+0519">>>>, <<"U+051A", <<"U+051B">>>>, <<"U+051C",
    <<"U+051D">>>>, <<"U+051E", <<"U+051F">>>>, <<"U+0520", <<"U+0521">>>>, <<"U+0522",
    <<"U+0523">>>>, <<"U+0524", <<"U+0525">>>>, <<"U+0526", <<"U+0527">>>>, <<"U+0528",
    <<"U+0529">>>>, <<"U+052A", <<"U+052B">>>>, <<"U+052C", <<"U+052D">>>>, <<"U+052E",
    <<"U+052F">>>>, <<"U+0531", <<"U+0561">>>>, <<"U+0532", <<"U+0562">>>>, <<"U+0533",
    <<"U+0563">>>>, <<"U+0534", <<"U+0564">>>>, <<"U+0535", <<"U+0565">>>>, <<"U+0536",
    <<"U+0566">>>>, <<"U+0537", <<"U+0567">>>>, <<"U+0538", <<"U+0568">>>>, <<"U+0539",
    <<"U+0569">>>>, <<"U+053A", <<"U+056A">>>>, <<"U+053B", <<"U+056B">>>>, <<"U+053C",
    <<"U+056C">>>>, <<"U+053D", <<"U+056D">>>>, <<"U+053E", <<"U+056E">>>>, <<"U+053F",
    <<"U+056F">>>>, <<"U+0540", <<"U+0570">>>>, <<"U+0541", <<"U+0571">>>>, <<"U+0542",
    <<"U+0572">>>>, <<"U+0543", <<"U+0573">>>>, <<"U+0544", <<"U+0574">>>>, <<"U+0545",
    <<"U+0575">>>>, <<"U+0546", <<"U+0576">>>>, <<"U+0547", <<"U+0577">>>>, <<"U+0548",
    <<"U+0578">>>>, <<"U+0549", <<"U+0579">>>>, <<"U+054A", <<"U+057A">>>>, <<"U+054B",
    <<"U+057B">>>>, <<"U+054C", <<"U+057C">>>>, <<"U+054D", <<"U+057D">>>>, <<"U+054E",
    <<"U+057E">>>>, <<"U+054F", <<"U+057F">>>>, <<"U+0550", <<"U+0580">>>>, <<"U+0551",
    <<"U+0581">>>>, <<"U+0552", <<"U+0582">>>>, <<"U+0553", <<"U+0583">>>>, <<"U+0554",
    <<"U+0584">>>>, <<"U+0555", <<"U+0585">>>>, <<"U+0556", <<"U+0586">>>>, <<"U+10A0",
    <<"U+2D00">>>>, <<"U+10A1", <<"U+2D01">>>>, <<"U+10A2", <<"U+2D02">>>>, <<"U+10A3",
    <<"U+2D03">>>>, <<"U+10A4", <<"U+2D04">>>>, <<"U+10A5", <<"U+2D05">>>>, <<"U+10A6",
    <<"U+2D06">>>>, <<"U+10A7", <<"U+2D07">>>>, <<"U+10A8", <<"U+2D08">>>>, <<"U+10A9",
    <<"U+2D09">>>>, <<"U+10AA", <<"U+2D0A">>>>, <<"U+10AB", <<"U+2D0B">>>>, <<"U+10AC",
    <<"U+2D0C">>>>, <<"U+10AD", <<"U+2D0D">>>>, <<"U+10AE", <<"U+2D0E">>>>, <<"U+10AF",
    <<"U+2D0F">>>>, <<"U+10B0", <<"U+2D10">>>>, <<"U+10B1", <<"U+2D11">>>>, <<"U+10B2",
    <<"U+2D12">>>>, <<"U+10B3", <<"U+2D13">>>>, <<"U+10B4", <<"U+2D14">>>>, <<"U+10B5",
    <<"U+2D15">>>>, <<"U+10B6", <<"U+2D16">>>>, <<"U+10B7", <<"U+2D17">>>>, <<"U+10B8",
    <<"U+2D18">>>>, <<"U+10B9", <<"U+2D19">>>>, <<"U+10BA", <<"U+2D1A">>>>, <<"U+10BB",
    <<"U+2D1B">>>>, <<"U+10BC", <<"U+2D1C">>>>, <<"U+10BD", <<"U+2D1D">>>>, <<"U+10BE",
    <<"U+2D1E">>>>, <<"U+10BF", <<"U+2D1F">>>>, <<"U+10C0", <<"U+2D20">>>>, <<"U+10C1",
    <<"U+2D21">>>>, <<"U+10C2", <<"U+2D22">>>>, <<"U+10C3", <<"U+2D23">>>>, <<"U+10C4",
    <<"U+2D24">>>>, <<"U+10C5", <<"U+2D25">>>>, <<"U+10C7", <<"U+2D27">>>>, <<"U+10CD",
    <<"U+2D2D">>>>, <<"U+13A0", <<"U+AB70">>>>, <<"U+13A1", <<"U+AB71">>>>, <<"U+13A2",
    <<"U+AB72">>>>, <<"U+13A3", <<"U+AB73">>>>, <<"U+13A4", <<"U+AB74">>>>, <<"U+13A5",
    <<"U+AB75">>>>, <<"U+13A6", <<"U+AB76">>>>, <<"U+13A7", <<"U+AB77">>>>, <<"U+13A8",
    <<"U+AB78">>>>, <<"U+13A9", <<"U+AB79">>>>, <<"U+13AA", <<"U+AB7A">>>>, <<"U+13AB",
    <<"U+AB7B">>>>, <<"U+13AC", <<"U+AB7C">>>>, <<"U+13AD", <<"U+AB7D">>>>, <<"U+13AE",
    <<"U+AB7E">>>>, <<"U+13AF", <<"U+AB7F">>>>, <<"U+13B0", <<"U+AB80">>>>, <<"U+13B1",
    <<"U+AB81">>>>, <<"U+13B2", <<"U+AB82">>>>, <<"U+13B3", <<"U+AB83">>>>, <<"U+13B4",
    <<"U+AB84">>>>, <<"U+13B5", <<"U+AB85">>>>, <<"U+13B6", <<"U+AB86">>>>, <<"U+13B7",
    <<"U+AB87">>>>, <<"U+13B8", <<"U+AB88">>>>, <<"U+13B9", <<"U+AB89">>>>, <<"U+13BA",
    <<"U+AB8A">>>>, <<"U+13BB", <<"U+AB8B">>>>, <<"U+13BC", <<"U+AB8C">>>>, <<"U+13BD",
    <<"U+AB8D">>>>, <<"U+13BE", <<"U+AB8E">>>>, <<"U+13BF", <<"U+AB8F">>>>, <<"U+13C0",
    <<"U+AB90">>>>, <<"U+13C1", <<"U+AB91">>>>, <<"U+13C2", <<"U+AB92">>>>, <<"U+13C3",
    <<"U+AB93">>>>, <<"U+13C4", <<"U+AB94">>>>, <<"U+13C5", <<"U+AB95">>>>, <<"U+13C6",
    <<"U+AB96">>>>, <<"U+13C7", <<"U+AB97">>>>, <<"U+13C8", <<"U+AB98">>>>, <<"U+13C9",
    <<"U+AB99">>>>, <<"U+13CA", <<"U+AB9A">>>>, <<"U+13CB", <<"U+AB9B">>>>, <<"U+13CC",
    <<"U+AB9C">>>>, <<"U+13CD", <<"U+AB9D">>>>, <<"U+13CE", <<"U+AB9E">>>>, <<"U+13CF",
    <<"U+AB9F">>>>, <<"U+13D0", <<"U+ABA0">>>>, <<"U+13D1", <<"U+ABA1">>>>, <<"U+13D2",
    <<"U+ABA2">>>>, <<"U+13D3", <<"U+ABA3">>>>, <<"U+13D4", <<"U+ABA4">>>>, <<"U+13D5",
    <<"U+ABA5">>>>, <<"U+13D6", <<"U+ABA6">>>>, <<"U+13D7", <<"U+ABA7">>>>, <<"U+13D8",
    <<"U+ABA8">>>>, <<"U+13D9", <<"U+ABA9">>>>, <<"U+13DA", <<"U+ABAA">>>>, <<"U+13DB",
    <<"U+ABAB">>>>, <<"U+13DC", <<"U+ABAC">>>>, <<"U+13DD", <<"U+ABAD">>>>, <<"U+13DE",
    <<"U+ABAE">>>>, <<"U+13DF", <<"U+ABAF">>>>, <<"U+13E0", <<"U+ABB0">>>>, <<"U+13E1",
    <<"U+ABB1">>>>, <<"U+13E2", <<"U+ABB2">>>>, <<"U+13E3", <<"U+ABB3">>>>, <<"U+13E4",
    <<"U+ABB4">>>>, <<"U+13E5", <<"U+ABB5">>>>, <<"U+13E6", <<"U+ABB6">>>>, <<"U+13E7",
    <<"U+ABB7">>>>, <<"U+13E8", <<"U+ABB8">>>>, <<"U+13E9", <<"U+ABB9">>>>, <<"U+13EA",
    <<"U+ABBA">>>>, <<"U+13EB", <<"U+ABBB">>>>, <<"U+13EC", <<"U+ABBC">>>>, <<"U+13ED",
    <<"U+ABBD">>>>, <<"U+13EE", <<"U+ABBE">>>>, <<"U+13EF", <<"U+ABBF">>>>, <<"U+13F0",
    <<"U+13F8">>>>, <<"U+13F1", <<"U+13F9">>>>, <<"U+13F2", <<"U+13FA">>>>, <<"U+13F3",
    <<"U+13FB">>>>, <<"U+13F4", <<"U+13FC">>>>, <<"U+13F5", <<"U+13FD">>>>, <<"U+1C90",
    <<"U+10D0">>>>, <<"U+1C91", <<"U+10D1">>>>, <<"U+1C92", <<"U+10D2">>>>, <<"U+1C93",
    <<"U+10D3">>>>, <<"U+1C94", <<"U+10D4">>>>, <<"U+1C95", <<"U+10D5">>>>, <<"U+1C96",
    <<"U+10D6">>>>, <<"U+1C97", <<"U+10D7">>>>, <<"U+1C98", <<"U+10D8">>>>, <<"U+1C99",
    <<"U+10D9">>>>, <<"U+1C9A", <<"U+10DA">>>>, <<"U+1C9B", <<"U+10DB">>>>, <<"U+1C9C",
    <<"U+10DC">>>>, <<"U+1C9D", <<"U+10DD">>>>, <<"U+1C9E", <<"U+10DE">>>>, <<"U+1C9F",
    <<"U+10DF">>>>, <<"U+1CA0", <<"U+10E0">>>>, <<"U+1CA1", <<"U+10E1">>>>, <<"U+1CA2",
    <<"U+10E2">>>>, <<"U+1CA3", <<"U+10E3">>>>, <<"U+1CA4", <<"U+10E4">>>>, <<"U+1CA5",
    <<"U+10E5">>>>, <<"U+1CA6", <<"U+10E6">>>>, <<"U+1CA7", <<"U+10E7">>>>, <<"U+1CA8",
    <<"U+10E8">>>>, <<"U+1CA9", <<"U+10E9">>>>, <<"U+1CAA", <<"U+10EA">>>>, <<"U+1CAB",
    <<"U+10EB">>>>, <<"U+1CAC", <<"U+10EC">>>>, <<"U+1CAD", <<"U+10ED">>>>, <<"U+1CAE",
    <<"U+10EE">>>>, <<"U+1CAF", <<"U+10EF">>>>, <<"U+1CB0", <<"U+10F0">>>>, <<"U+1CB1",
    <<"U+10F1">>>>, <<"U+1CB2", <<"U+10F2">>>>, <<"U+1CB3", <<"U+10F3">>>>, <<"U+1CB4",
    <<"U+10F4">>>>, <<"U+1CB5", <<"U+10F5">>>>, <<"U+1CB6", <<"U+10F6">>>>, <<"U+1CB7",
    <<"U+10F7">>>>, <<"U+1CB8", <<"U+10F8">>>>, <<"U+1CB9", <<"U+10F9">>>>, <<"U+1CBA",
    <<"U+10FA">>>>, <<"U+1CBD", <<"U+10FD">>>>, <<"U+1CBE", <<"U+10FE">>>>, <<"U+1CBF",
    <<"U+10FF">>>>, <<"U+1E00", <<"U+1E01">>>>, <<"U+1E02", <<"U+1E03">>>>, <<"U+1E04",
    <<"U+1E05">>>>, <<"U+1E06", <<"U+1E07">>>>, <<"U+1E08", <<"U+1E09">>>>, <<"U+1E0A",
    <<"U+1E0B">>>>, <<"U+1E0C", <<"U+1E0D">>>>, <<"U+1E0E", <<"U+1E0F">>>>, <<"U+1E10",
    <<"U+1E11">>>>, <<"U+1E12", <<"U+1E13">>>>, <<"U+1E14", <<"U+1E15">>>>, <<"U+1E16",
    <<"U+1E17">>>>, <<"U+1E18", <<"U+1E19">>>>, <<"U+1E1A", <<"U+1E1B">>>>, <<"U+1E1C",
    <<"U+1E1D">>>>, <<"U+1E1E", <<"U+1E1F">>>>, <<"U+1E20", <<"U+1E21">>>>, <<"U+1E22",
    <<"U+1E23">>>>, <<"U+1E24", <<"U+1E25">>>>, <<"U+1E26", <<"U+1E27">>>>, <<"U+1E28",
    <<"U+1E29">>>>, <<"U+1E2A", <<"U+1E2B">>>>, <<"U+1E2C", <<"U+1E2D">>>>, <<"U+1E2E",
    <<"U+1E2F">>>>, <<"U+1E30", <<"U+1E31">>>>, <<"U+1E32", <<"U+1E33">>>>, <<"U+1E34",
    <<"U+1E35">>>>, <<"U+1E36", <<"U+1E37">>>>, <<"U+1E38", <<"U+1E39">>>>, <<"U+1E3A",
    <<"U+1E3B">>>>, <<"U+1E3C", <<"U+1E3D">>>>, <<"U+1E3E", <<"U+1E3F">>>>, <<"U+1E40",
    <<"U+1E41">>>>, <<"U+1E42", <<"U+1E43">>>>, <<"U+1E44", <<"U+1E45">>>>, <<"U+1E46",
    <<"U+1E47">>>>, <<"U+1E48", <<"U+1E49">>>>, <<"U+1E4A", <<"U+1E4B">>>>, <<"U+1E4C",
    <<"U+1E4D">>>>, <<"U+1E4E", <<"U+1E4F">>>>, <<"U+1E50", <<"U+1E51">>>>, <<"U+1E52",
    <<"U+1E53">>>>, <<"U+1E54", <<"U+1E55">>>>, <<"U+1E56", <<"U+1E57">>>>, <<"U+1E58",
    <<"U+1E59">>>>, <<"U+1E5A", <<"U+1E5B">>>>, <<"U+1E5C", <<"U+1E5D">>>>, <<"U+1E5E",
    <<"U+1E5F">>>>, <<"U+1E60", <<"U+1E61">>>>, <<"U+1E62", <<"U+1E63">>>>, <<"U+1E64",
    <<"U+1E65">>>>, <<"U+1E66", <<"U+1E67">>>>, <<"U+1E68", <<"U+1E69">>>>, <<"U+1E6A",
    <<"U+1E6B">>>>, <<"U+1E6C", <<"U+1E6D">>>>, <<"U+1E6E", <<"U+1E6F">>>>, <<"U+1E70",
    <<"U+1E71">>>>, <<"U+1E72", <<"U+1E73">>>>, <<"U+1E74", <<"U+1E75">>>>, <<"U+1E76",
    <<"U+1E77">>>>, <<"U+1E78", <<"U+1E79">>>>, <<"U+1E7A", <<"U+1E7B">>>>, <<"U+1E7C",
    <<"U+1E7D">>>>, <<"U+1E7E", <<"U+1E7F">>>>, <<"U+1E80", <<"U+1E81">>>>, <<"U+1E82",
    <<"U+1E83">>>>, <<"U+1E84", <<"U+1E85">>>>, <<"U+1E86", <<"U+1E87">>>>, <<"U+1E88",
    <<"U+1E89">>>>, <<"U+1E8A", <<"U+1E8B">>>>, <<"U+1E8C", <<"U+1E8D">>>>, <<"U+1E8E",
    <<"U+1E8F">>>>, <<"U+1E90", <<"U+1E91">>>>, <<"U+1E92", <<"U+1E93">>>>, <<"U+1E94",
    <<"U+1E95">>>>, <<"U+1E9E", <<"U+00DF">>>>, <<"U+1EA0", <<"U+1EA1">>>>, <<"U+1EA2",
    <<"U+1EA3">>>>, <<"U+1EA4", <<"U+1EA5">>>>, <<"U+1EA6", <<"U+1EA7">>>>, <<"U+1EA8",
    <<"U+1EA9">>>>, <<"U+1EAA", <<"U+1EAB">>>>, <<"U+1EAC", <<"U+1EAD">>>>, <<"U+1EAE",
    <<"U+1EAF">>>>, <<"U+1EB0", <<"U+1EB1">>>>, <<"U+1EB2", <<"U+1EB3">>>>, <<"U+1EB4",
    <<"U+1EB5">>>>, <<"U+1EB6", <<"U+1EB7">>>>, <<"U+1EB8", <<"U+1EB9">>>>, <<"U+1EBA",
    <<"U+1EBB">>>>, <<"U+1EBC", <<"U+1EBD">>>>, <<"U+1EBE", <<"U+1EBF">>>>, <<"U+1EC0",
    <<"U+1EC1">>>>, <<"U+1EC2", <<"U+1EC3">>>>, <<"U+1EC4", <<"U+1EC5">>>>, <<"U+1EC6",
    <<"U+1EC7">>>>, <<"U+1EC8", <<"U+1EC9">>>>, <<"U+1ECA", <<"U+1ECB">>>>, <<"U+1ECC",
    <<"U+1ECD">>>>, <<"U+1ECE", <<"U+1ECF">>>>, <<"U+1ED0", <<"U+1ED1">>>>, <<"U+1ED2",
    <<"U+1ED3">>>>, <<"U+1ED4", <<"U+1ED5">>>>, <<"U+1ED6", <<"U+1ED7">>>>, <<"U+1ED8",
    <<"U+1ED9">>>>, <<"U+1EDA", <<"U+1EDB">>>>, <<"U+1EDC", <<"U+1EDD">>>>, <<"U+1EDE",
    <<"U+1EDF">>>>, <<"U+1EE0", <<"U+1EE1">>>>, <<"U+1EE2", <<"U+1EE3">>>>, <<"U+1EE4",
    <<"U+1EE5">>>>, <<"U+1EE6", <<"U+1EE7">>>>, <<"U+1EE8", <<"U+1EE9">>>>, <<"U+1EEA",
    <<"U+1EEB">>>>, <<"U+1EEC", <<"U+1EED">>>>, <<"U+1EEE", <<"U+1EEF">>>>, <<"U+1EF0",
    <<"U+1EF1">>>>, <<"U+1EF2", <<"U+1EF3">>>>, <<"U+1EF4", <<"U+1EF5">>>>, <<"U+1EF6",
    <<"U+1EF7">>>>, <<"U+1EF8", <<"U+1EF9">>>>, <<"U+1EFA", <<"U+1EFB">>>>, <<"U+1EFC",
    <<"U+1EFD">>>>, <<"U+1EFE", <<"U+1EFF">>>>, <<"U+1F08", <<"U+1F00">>>>, <<"U+1F09",
    <<"U+1F01">>>>, <<"U+1F0A", <<"U+1F02">>>>, <<"U+1F0B", <<"U+1F03">>>>, <<"U+1F0C",
    <<"U+1F04">>>>, <<"U+1F0D", <<"U+1F05">>>>, <<"U+1F0E", <<"U+1F06">>>>, <<"U+1F0F",
    <<"U+1F07">>>>, <<"U+1F18", <<"U+1F10">>>>, <<"U+1F19", <<"U+1F11">>>>, <<"U+1F1A",
    <<"U+1F12">>>>, <<"U+1F1B", <<"U+1F13">>>>, <<"U+1F1C", <<"U+1F14">>>>, <<"U+1F1D",
    <<"U+1F15">>>>, <<"U+1F28", <<"U+1F20">>>>, <<"U+1F29", <<"U+1F21">>>>, <<"U+1F2A",
    <<"U+1F22">>>>, <<"U+1F2B", <<"U+1F23">>>>, <<"U+1F2C", <<"U+1F24">>>>, <<"U+1F2D",
    <<"U+1F25">>>>, <<"U+1F2E", <<"U+1F26">>>>, <<"U+1F2F", <<"U+1F27">>>>, <<"U+1F38",
    <<"U+1F30">>>>, <<"U+1F39", <<"U+1F31">>>>, <<"U+1F3A", <<"U+1F32">>>>, <<"U+1F3B",
    <<"U+1F33">>>>, <<"U+1F3C", <<"U+1F34">>>>, <<"U+1F3D", <<"U+1F35">>>>, <<"U+1F3E",
    <<"U+1F36">>>>, <<"U+1F3F", <<"U+1F37">>>>, <<"U+1F48", <<"U+1F40">>>>, <<"U+1F49",
    <<"U+1F41">>>>, <<"U+1F4A", <<"U+1F42">>>>, <<"U+1F4B", <<"U+1F43">>>>, <<"U+1F4C",
    <<"U+1F44">>>>, <<"U+1F4D", <<"U+1F45">>>>, <<"U+1F59", <<"U+1F51">>>>, <<"U+1F5B",
    <<"U+1F53">>>>, <<"U+1F5D", <<"U+1F55">>>>, <<"U+1F5F", <<"U+1F57">>>>, <<"U+1F68",
    <<"U+1F60">>>>, <<"U+1F69", <<"U+1F61">>>>, <<"U+1F6A", <<"U+1F62">>>>, <<"U+1F6B",
    <<"U+1F63">>>>, <<"U+1F6C", <<"U+1F64">>>>, <<"U+1F6D", <<"U+1F65">>>>, <<"U+1F6E",
    <<"U+1F66">>>>, <<"U+1F6F", <<"U+1F67">>>>, <<"U+1F88", <<"U+1F80">>>>, <<"U+1F89",
    <<"U+1F81">>>>, <<"U+1F8A", <<"U+1F82">>>>, <<"U+1F8B", <<"U+1F83">>>>, <<"U+1F8C",
    <<"U+1F84">>>>, <<"U+1F8D", <<"U+1F85">>>>, <<"U+1F8E", <<"U+1F86">>>>, <<"U+1F8F",
    <<"U+1F87">>>>, <<"U+1F98", <<"U+1F90">>>>, <<"U+1F99", <<"U+1F91">>>>, <<"U+1F9A",
    <<"U+1F92">>>>, <<"U+1F9B", <<"U+1F93">>>>, <<"U+1F9C", <<"U+1F94">>>>, <<"U+1F9D",
    <<"U+1F95">>>>, <<"U+1F9E", <<"U+1F96">>>>, <<"U+1F9F", <<"U+1F97">>>>, <<"U+1FA8",
    <<"U+1FA0">>>>, <<"U+1FA9", <<"U+1FA1">>>>, <<"U+1FAA", <<"U+1FA2">>>>, <<"U+1FAB",
    <<"U+1FA3">>>>, <<"U+1FAC", <<"U+1FA4">>>>, <<"U+1FAD", <<"U+1FA5">>>>, <<"U+1FAE",
    <<"U+1FA6">>>>, <<"U+1FAF", <<"U+1FA7">>>>, <<"U+1FB8", <<"U+1FB0">>>>, <<"U+1FB9",
    <<"U+1FB1">>>>, <<"U+1FBA", <<"U+1F70">>>>, <<"U+1FBB", <<"U+1F71">>>>, <<"U+1FBC",
    <<"U+1FB3">>>>, <<"U+1FC8", <<"U+1F72">>>>, <<"U+1FC9", <<"U+1F73">>>>, <<"U+1FCA",
    <<"U+1F74">>>>, <<"U+1FCB", <<"U+1F75">>>>, <<"U+1FCC", <<"U+1FC3">>>>, <<"U+1FD8",
    <<"U+1FD0">>>>, <<"U+1FD9", <<"U+1FD1">>>>, <<"U+1FDA", <<"U+1F76">>>>, <<"U+1FDB",
    <<"U+1F77">>>>, <<"U+1FE8", <<"U+1FE0">>>>, <<"U+1FE9", <<"U+1FE1">>>>, <<"U+1FEA",
    <<"U+1F7A">>>>, <<"U+1FEB", <<"U+1F7B">>>>, <<"U+1FEC", <<"U+1FE5">>>>, <<"U+1FF8",
    <<"U+1F78">>>>, <<"U+1FF9", <<"U+1F79">>>>, <<"U+1FFA", <<"U+1F7C">>>>, <<"U+1FFB",
    <<"U+1F7D">>>>, <<"U+1FFC", <<"U+1FF3">>>>, <<"U+2126", <<"U+03C9">>>>, <<"U+212A",
    <<"k">>>>, <<"U+212B", <<"U+00E5">>>>, <<"U+2132", <<"U+214E">>>>, <<"U+2160",
    <<"U+2170">>>>, <<"U+2161", <<"U+2171">>>>, <<"U+2162", <<"U+2172">>>>, <<"U+2163",
    <<"U+2173">>>>, <<"U+2164", <<"U+2174">>>>, <<"U+2165", <<"U+2175">>>>, <<"U+2166",
    <<"U+2176">>>>, <<"U+2167", <<"U+2177">>>>, <<"U+2168", <<"U+2178">>>>, <<"U+2169",
    <<"U+2179">>>>, <<"U+216A", <<"U+217A">>>>, <<"U+216B", <<"U+217B">>>>, <<"U+216C",
    <<"U+217C">>>>, <<"U+216D", <<"U+217D">>>>, <<"U+216E", <<"U+217E">>>>, <<"U+216F",
    <<"U+217F">>>>, <<"U+2183", <<"U+2184">>>>, <<"U+24B6", <<"U+24D0">>>>, <<"U+24B7",
    <<"U+24D1">>>>, <<"U+24B8", <<"U+24D2">>>>, <<"U+24B9", <<"U+24D3">>>>, <<"U+24BA",
    <<"U+24D4">>>>, <<"U+24BB", <<"U+24D5">>>>, <<"U+24BC", <<"U+24D6">>>>, <<"U+24BD",
    <<"U+24D7">>>>, <<"U+24BE", <<"U+24D8">>>>, <<"U+24BF", <<"U+24D9">>>>, <<"U+24C0",
    <<"U+24DA">>>>, <<"U+24C1", <<"U+24DB">>>>, <<"U+24C2", <<"U+24DC">>>>, <<"U+24C3",
    <<"U+24DD">>>>, <<"U+24C4", <<"U+24DE">>>>, <<"U+24C5", <<"U+24DF">>>>, <<"U+24C6",
    <<"U+24E0">>>>, <<"U+24C7", <<"U+24E1">>>>, <<"U+24C8", <<"U+24E2">>>>, <<"U+24C9",
    <<"U+24E3">>>>, <<"U+24CA", <<"U+24E4">>>>, <<"U+24CB", <<"U+24E5">>>>, <<"U+24CC",
    <<"U+24E6">>>>, <<"U+24CD", <<"U+24E7">>>>, <<"U+24CE", <<"U+24E8">>>>, <<"U+24CF",
    <<"U+24E9">>>>, <<"U+2C00", <<"U+2C30">>>>, <<"U+2C01", <<"U+2C31">>>>, <<"U+2C02",
    <<"U+2C32">>>>, <<"U+2C03", <<"U+2C33">>>>, <<"U+2C04", <<"U+2C34">>>>, <<"U+2C05",
    <<"U+2C35">>>>, <<"U+2C06", <<"U+2C36">>>>, <<"U+2C07", <<"U+2C37">>>>, <<"U+2C08",
    <<"U+2C38">>>>, <<"U+2C09", <<"U+2C39">>>>, <<"U+2C0A", <<"U+2C3A">>>>, <<"U+2C0B",
    <<"U+2C3B">>>>, <<"U+2C0C", <<"U+2C3C">>>>, <<"U+2C0D", <<"U+2C3D">>>>, <<"U+2C0E",
    <<"U+2C3E">>>>, <<"U+2C0F", <<"U+2C3F">>>>, <<"U+2C10", <<"U+2C40">>>>, <<"U+2C11",
    <<"U+2C41">>>>, <<"U+2C12", <<"U+2C42">>>>, <<"U+2C13", <<"U+2C43">>>>, <<"U+2C14",
    <<"U+2C44">>>>, <<"U+2C15", <<"U+2C45">>>>, <<"U+2C16", <<"U+2C46">>>>, <<"U+2C17",
    <<"U+2C47">>>>, <<"U+2C18", <<"U+2C48">>>>, <<"U+2C19", <<"U+2C49">>>>, <<"U+2C1A",
    <<"U+2C4A">>>>, <<"U+2C1B", <<"U+2C4B">>>>, <<"U+2C1C", <<"U+2C4C">>>>, <<"U+2C1D",
    <<"U+2C4D">>>>, <<"U+2C1E", <<"U+2C4E">>>>, <<"U+2C1F", <<"U+2C4F">>>>, <<"U+2C20",
    <<"U+2C50">>>>, <<"U+2C21", <<"U+2C51">>>>, <<"U+2C22", <<"U+2C52">>>>, <<"U+2C23",
    <<"U+2C53">>>>, <<"U+2C24", <<"U+2C54">>>>, <<"U+2C25", <<"U+2C55">>>>, <<"U+2C26",
    <<"U+2C56">>>>, <<"U+2C27", <<"U+2C57">>>>, <<"U+2C28", <<"U+2C58">>>>, <<"U+2C29",
    <<"U+2C59">>>>, <<"U+2C2A", <<"U+2C5A">>>>, <<"U+2C2B", <<"U+2C5B">>>>, <<"U+2C2C",
    <<"U+2C5C">>>>, <<"U+2C2D", <<"U+2C5D">>>>, <<"U+2C2E", <<"U+2C5E">>>>, <<"U+2C2F",
    <<"U+2C5F">>>>, <<"U+2C60", <<"U+2C61">>>>, <<"U+2C62", <<"U+026B">>>>, <<"U+2C63",
    <<"U+1D7D">>>>, <<"U+2C64", <<"U+027D">>>>, <<"U+2C67", <<"U+2C68">>>>, <<"U+2C69",
    <<"U+2C6A">>>>, <<"U+2C6B", <<"U+2C6C">>>>, <<"U+2C6D", <<"U+0251">>>>, <<"U+2C6E",
    <<"U+0271">>>>, <<"U+2C6F", <<"U+0250">>>>, <<"U+2C70", <<"U+0252">>>>, <<"U+2C72",
    <<"U+2C73">>>>, <<"U+2C75", <<"U+2C76">>>>, <<"U+2C7E", <<"U+023F">>>>, <<"U+2C7F",
    <<"U+0240">>>>, <<"U+2C80", <<"U+2C81">>>>, <<"U+2C82", <<"U+2C83">>>>, <<"U+2C84",
    <<"U+2C85">>>>, <<"U+2C86", <<"U+2C87">>>>, <<"U+2C88", <<"U+2C89">>>>, <<"U+2C8A",
    <<"U+2C8B">>>>, <<"U+2C8C", <<"U+2C8D">>>>, <<"U+2C8E", <<"U+2C8F">>>>, <<"U+2C90",
    <<"U+2C91">>>>, <<"U+2C92", <<"U+2C93">>>>, <<"U+2C94", <<"U+2C95">>>>, <<"U+2C96",
    <<"U+2C97">>>>, <<"U+2C98", <<"U+2C99">>>>, <<"U+2C9A", <<"U+2C9B">>>>, <<"U+2C9C",
    <<"U+2C9D">>>>, <<"U+2C9E", <<"U+2C9F">>>>, <<"U+2CA0", <<"U+2CA1">>>>, <<"U+2CA2",
    <<"U+2CA3">>>>, <<"U+2CA4", <<"U+2CA5">>>>, <<"U+2CA6", <<"U+2CA7">>>>, <<"U+2CA8",
    <<"U+2CA9">>>>, <<"U+2CAA", <<"U+2CAB">>>>, <<"U+2CAC", <<"U+2CAD">>>>, <<"U+2CAE",
    <<"U+2CAF">>>>, <<"U+2CB0", <<"U+2CB1">>>>, <<"U+2CB2", <<"U+2CB3">>>>, <<"U+2CB4",
    <<"U+2CB5">>>>, <<"U+2CB6", <<"U+2CB7">>>>, <<"U+2CB8", <<"U+2CB9">>>>, <<"U+2CBA",
    <<"U+2CBB">>>>, <<"U+2CBC", <<"U+2CBD">>>>, <<"U+2CBE", <<"U+2CBF">>>>, <<"U+2CC0",
    <<"U+2CC1">>>>, <<"U+2CC2", <<"U+2CC3">>>>, <<"U+2CC4", <<"U+2CC5">>>>, <<"U+2CC6",
    <<"U+2CC7">>>>, <<"U+2CC8", <<"U+2CC9">>>>, <<"U+2CCA", <<"U+2CCB">>>>, <<"U+2CCC",
    <<"U+2CCD">>>>, <<"U+2CCE", <<"U+2CCF">>>>, <<"U+2CD0", <<"U+2CD1">>>>, <<"U+2CD2",
    <<"U+2CD3">>>>, <<"U+2CD4", <<"U+2CD5">>>>, <<"U+2CD6", <<"U+2CD7">>>>, <<"U+2CD8",
    <<"U+2CD9">>>>, <<"U+2CDA", <<"U+2CDB">>>>, <<"U+2CDC", <<"U+2CDD">>>>, <<"U+2CDE",
    <<"U+2CDF">>>>, <<"U+2CE0", <<"U+2CE1">>>>, <<"U+2CE2", <<"U+2CE3">>>>, <<"U+2CEB",
    <<"U+2CEC">>>>, <<"U+2CED", <<"U+2CEE">>>>, <<"U+2CF2", <<"U+2CF3">>>>, <<"U+A640",
    <<"U+A641">>>>, <<"U+A642", <<"U+A643">>>>, <<"U+A644", <<"U+A645">>>>, <<"U+A646",
    <<"U+A647">>>>, <<"U+A648", <<"U+A649">>>>, <<"U+A64A", <<"U+A64B">>>>, <<"U+A64C",
    <<"U+A64D">>>>, <<"U+A64E", <<"U+A64F">>>>, <<"U+A650", <<"U+A651">>>>, <<"U+A652",
    <<"U+A653">>>>, <<"U+A654", <<"U+A655">>>>, <<"U+A656", <<"U+A657">>>>, <<"U+A658",
    <<"U+A659">>>>, <<"U+A65A", <<"U+A65B">>>>, <<"U+A65C", <<"U+A65D">>>>, <<"U+A65E",
    <<"U+A65F">>>>, <<"U+A660", <<"U+A661">>>>, <<"U+A662", <<"U+A663">>>>, <<"U+A664",
    <<"U+A665">>>>, <<"U+A666", <<"U+A667">>>>, <<"U+A668", <<"U+A669">>>>, <<"U+A66A",
    <<"U+A66B">>>>, <<"U+A66C", <<"U+A66D">>>>, <<"U+A680", <<"U+A681">>>>, <<"U+A682",
    <<"U+A683">>>>, <<"U+A684", <<"U+A685">>>>, <<"U+A686", <<"U+A687">>>>, <<"U+A688",
    <<"U+A689">>>>, <<"U+A68A", <<"U+A68B">>>>, <<"U+A68C", <<"U+A68D">>>>, <<"U+A68E",
    <<"U+A68F">>>>, <<"U+A690", <<"U+A691">>>>, <<"U+A692", <<"U+A693">>>>, <<"U+A694",
    <<"U+A695">>>>, <<"U+A696", <<"U+A697">>>>, <<"U+A698", <<"U+A699">>>>, <<"U+A69A",
    <<"U+A69B">>>>, <<"U+A722", <<"U+A723">>>>, <<"U+A724", <<"U+A725">>>>, <<"U+A726",
    <<"U+A727">>>>, <<"U+A728", <<"U+A729">>>>, <<"U+A72A", <<"U+A72B">>>>, <<"U+A72C",
    <<"U+A72D">>>>, <<"U+A72E", <<"U+A72F">>>>, <<"U+A732", <<"U+A733">>>>, <<"U+A734",
    <<"U+A735">>>>, <<"U+A736", <<"U+A737">>>>, <<"U+A738", <<"U+A739">>>>, <<"U+A73A",
    <<"U+A73B">>>>, <<"U+A73C", <<"U+A73D">>>>, <<"U+A73E", <<"U+A73F">>>>, <<"U+A740",
    <<"U+A741">>>>, <<"U+A742", <<"U+A743">>>>, <<"U+A744", <<"U+A745">>>>, <<"U+A746",
    <<"U+A747">>>>, <<"U+A748", <<"U+A749">>>>, <<"U+A74A", <<"U+A74B">>>>, <<"U+A74C",
    <<"U+A74D">>>>, <<"U+A74E", <<"U+A74F">>>>, <<"U+A750", <<"U+A751">>>>, <<"U+A752",
    <<"U+A753">>>>, <<"U+A754", <<"U+A755">>>>, <<"U+A756", <<"U+A757">>>>, <<"U+A758",
    <<"U+A759">>>>, <<"U+A75A", <<"U+A75B">>>>, <<"U+A75C", <<"U+A75D">>>>, <<"U+A75E",
    <<"U+A75F">>>>, <<"U+A760", <<"U+A761">>>>, <<"U+A762", <<"U+A763">>>>, <<"U+A764",
    <<"U+A765">>>>, <<"U+A766", <<"U+A767">>>>, <<"U+A768", <<"U+A769">>>>, <<"U+A76A",
    <<"U+A76B">>>>, <<"U+A76C", <<"U+A76D">>>>, <<"U+A76E", <<"U+A76F">>>>, <<"U+A779",
    <<"U+A77A">>>>, <<"U+A77B", <<"U+A77C">>>>, <<"U+A77D", <<"U+1D79">>>>, <<"U+A77E",
    <<"U+A77F">>>>, <<"U+A780", <<"U+A781">>>>, <<"U+A782", <<"U+A783">>>>, <<"U+A784",
    <<"U+A785">>>>, <<"U+A786", <<"U+A787">>>>, <<"U+A78B", <<"U+A78C">>>>, <<"U+A78D",
    <<"U+0265">>>>, <<"U+A790", <<"U+A791">>>>, <<"U+A792", <<"U+A793">>>>, <<"U+A796",
    <<"U+A797">>>>, <<"U+A798", <<"U+A799">>>>, <<"U+A79A", <<"U+A79B">>>>, <<"U+A79C",
    <<"U+A79D">>>>, <<"U+A79E", <<"U+A79F">>>>, <<"U+A7A0", <<"U+A7A1">>>>, <<"U+A7A2",
    <<"U+A7A3">>>>, <<"U+A7A4", <<"U+A7A5">>>>, <<"U+A7A6", <<"U+A7A7">>>>, <<"U+A7A8",
    <<"U+A7A9">>>>, <<"U+A7AA", <<"U+0266">>>>, <<"U+A7AB", <<"U+025C">>>>, <<"U+A7AC",
    <<"U+0261">>>>, <<"U+A7AD", <<"U+026C">>>>, <<"U+A7AE", <<"U+026A">>>>, <<"U+A7B0",
    <<"U+029E">>>>, <<"U+A7B1", <<"U+0287">>>>, <<"U+A7B2", <<"U+029D">>>>, <<"U+A7B3",
    <<"U+AB53">>>>, <<"U+A7B4", <<"U+A7B5">>>>, <<"U+A7B6", <<"U+A7B7">>>>, <<"U+A7B8",
    <<"U+A7B9">>>>, <<"U+A7BA", <<"U+A7BB">>>>, <<"U+A7BC", <<"U+A7BD">>>>, <<"U+A7BE",
    <<"U+A7BF">>>>, <<"U+A7C0", <<"U+A7C1">>>>, <<"U+A7C2", <<"U+A7C3">>>>, <<"U+A7C4",
    <<"U+A794">>>>, <<"U+A7C5", <<"U+0282">>>>, <<"U+A7C6", <<"U+1D8E">>>>, <<"U+A7C7",
    <<"U+A7C8">>>>, <<"U+A7C9", <<"U+A7CA">>>>, <<"U+A7D0", <<"U+A7D1">>>>, <<"U+A7D6",
    <<"U+A7D7">>>>, <<"U+A7D8", <<"U+A7D9">>>>, <<"U+A7F5", <<"U+A7F6">>>>, <<"U+FF21",
    <<"U+FF41">>>>, <<"U+FF22", <<"U+FF42">>>>, <<"U+FF23", <<"U+FF43">>>>, <<"U+FF24",
    <<"U+FF44">>>>, <<"U+FF25", <<"U+FF45">>>>, <<"U+FF26", <<"U+FF46">>>>, <<"U+FF27",
    <<"U+FF47">>>>, <<"U+FF28", <<"U+FF48">>>>, <<"U+FF29", <<"U+FF49">>>>, <<"U+FF2A",
    <<"U+FF4A">>>>, <<"U+FF2B", <<"U+FF4B">>>>, <<"U+FF2C", <<"U+FF4C">>>>, <<"U+FF2D",
    <<"U+FF4D">>>>, <<"U+FF2E", <<"U+FF4E">>>>, <<"U+FF2F", <<"U+FF4F">>>>, <<"U+FF30",
    <<"U+FF50">>>>, <<"U+FF31", <<"U+FF51">>>>, <<"U+FF32", <<"U+FF52">>>>, <<"U+FF33",
    <<"U+FF53">>>>, <<"U+FF34", <<"U+FF54">>>>, <<"U+FF35", <<"U+FF55">>>>, <<"U+FF36",
    <<"U+FF56">>>>, <<"U+FF37", <<"U+FF57">>>>, <<"U+FF38", <<"U+FF58">>>>, <<"U+FF39",
    <<"U+FF59">>>>, <<"U+FF3A", <<"U+FF5A">>>>, <<"U+10400", <<"U+10428">>>>, <<"U+10401",
    <<"U+10429">>>>, <<"U+10402", <<"U+1042A">>>>, <<"U+10403", <<"U+1042B">>>>, <<"U+10404",
    <<"U+1042C">>>>, <<"U+10405", <<"U+1042D">>>>, <<"U+10406", <<"U+1042E">>>>, <<"U+10407",
    <<"U+1042F">>>>, <<"U+10408", <<"U+10430">>>>, <<"U+10409", <<"U+10431">>>>, <<"U+1040A",
    <<"U+10432">>>>, <<"U+1040B", <<"U+10433">>>>, <<"U+1040C", <<"U+10434">>>>, <<"U+1040D",
    <<"U+10435">>>>, <<"U+1040E", <<"U+10436">>>>, <<"U+1040F", <<"U+10437">>>>, <<"U+10410",
    <<"U+10438">>>>, <<"U+10411", <<"U+10439">>>>, <<"U+10412", <<"U+1043A">>>>, <<"U+10413",
    <<"U+1043B">>>>, <<"U+10414", <<"U+1043C">>>>, <<"U+10415", <<"U+1043D">>>>, <<"U+10416",
    <<"U+1043E">>>>, <<"U+10417", <<"U+1043F">>>>, <<"U+10418", <<"U+10440">>>>, <<"U+10419",
    <<"U+10441">>>>, <<"U+1041A", <<"U+10442">>>>, <<"U+1041B", <<"U+10443">>>>, <<"U+1041C",
    <<"U+10444">>>>, <<"U+1041D", <<"U+10445">>>>, <<"U+1041E", <<"U+10446">>>>, <<"U+1041F",
    <<"U+10447">>>>, <<"U+10420", <<"U+10448">>>>, <<"U+10421", <<"U+10449">>>>, <<"U+10422",
    <<"U+1044A">>>>, <<"U+10423", <<"U+1044B">>>>, <<"U+10424", <<"U+1044C">>>>, <<"U+10425",
    <<"U+1044D">>>>, <<"U+10426", <<"U+1044E">>>>, <<"U+10427", <<"U+1044F">>>>, <<"U+104B0",
    <<"U+104D8">>>>, <<"U+104B1", <<"U+104D9">>>>, <<"U+104B2", <<"U+104DA">>>>, <<"U+104B3",
    <<"U+104DB">>>>, <<"U+104B4", <<"U+104DC">>>>, <<"U+104B5", <<"U+104DD">>>>, <<"U+104B6",
    <<"U+104DE">>>>, <<"U+104B7", <<"U+104DF">>>>, <<"U+104B8", <<"U+104E0">>>>, <<"U+104B9",
    <<"U+104E1">>>>, <<"U+104BA", <<"U+104E2">>>>, <<"U+104BB", <<"U+104E3">>>>, <<"U+104BC",
    <<"U+104E4">>>>, <<"U+104BD", <<"U+104E5">>>>, <<"U+104BE", <<"U+104E6">>>>, <<"U+104BF",
    <<"U+104E7">>>>, <<"U+104C0", <<"U+104E8">>>>, <<"U+104C1", <<"U+104E9">>>>, <<"U+104C2",
    <<"U+104EA">>>>, <<"U+104C3", <<"U+104EB">>>>, <<"U+104C4", <<"U+104EC">>>>, <<"U+104C5",
    <<"U+104ED">>>>, <<"U+104C6", <<"U+104EE">>>>, <<"U+104C7", <<"U+104EF">>>>, <<"U+104C8",
    <<"U+104F0">>>>, <<"U+104C9", <<"U+104F1">>>>, <<"U+104CA", <<"U+104F2">>>>, <<"U+104CB",
    <<"U+104F3">>>>, <<"U+104CC", <<"U+104F4">>>>, <<"U+104CD", <<"U+104F5">>>>, <<"U+104CE",
    <<"U+104F6">>>>, <<"U+104CF", <<"U+104F7">>>>, <<"U+104D0", <<"U+104F8">>>>, <<"U+104D1",
    <<"U+104F9">>>>, <<"U+104D2", <<"U+104FA">>>>, <<"U+104D3", <<"U+104FB">>>>, <<"U+10570",
    <<"U+10597">>>>, <<"U+10571", <<"U+10598">>>>, <<"U+10572", <<"U+10599">>>>, <<"U+10573",
    <<"U+1059A">>>>, <<"U+10574", <<"U+1059B">>>>, <<"U+10575", <<"U+1059C">>>>, <<"U+10576",
    <<"U+1059D">>>>, <<"U+10577", <<"U+1059E">>>>, <<"U+10578", <<"U+1059F">>>>, <<"U+10579",
    <<"U+105A0">>>>, <<"U+1057A", <<"U+105A1">>>>, <<"U+1057C", <<"U+105A3">>>>, <<"U+1057D",
    <<"U+105A4">>>>, <<"U+1057E", <<"U+105A5">>>>, <<"U+1057F", <<"U+105A6">>>>, <<"U+10580",
    <<"U+105A7">>>>, <<"U+10581", <<"U+105A8">>>>, <<"U+10582", <<"U+105A9">>>>, <<"U+10583",
    <<"U+105AA">>>>, <<"U+10584", <<"U+105AB">>>>, <<"U+10585", <<"U+105AC">>>>, <<"U+10586",
    <<"U+105AD">>>>, <<"U+10587", <<"U+105AE">>>>, <<"U+10588", <<"U+105AF">>>>, <<"U+10589",
    <<"U+105B0">>>>, <<"U+1058A", <<"U+105B1">>>>, <<"U+1058C", <<"U+105B3">>>>, <<"U+1058D",
    <<"U+105B4">>>>, <<"U+1058E", <<"U+105B5">>>>, <<"U+1058F", <<"U+105B6">>>>, <<"U+10590",
    <<"U+105B7">>>>, <<"U+10591", <<"U+105B8">>>>, <<"U+10592", <<"U+105B9">>>>, <<"U+10594",
    <<"U+105BB">>>>, <<"U+10595", <<"U+105BC">>>>, <<"U+10C80", <<"U+10CC0">>>>, <<"U+10C81",
    <<"U+10CC1">>>>, <<"U+10C82", <<"U+10CC2">>>>, <<"U+10C83", <<"U+10CC3">>>>, <<"U+10C84",
    <<"U+10CC4">>>>, <<"U+10C85", <<"U+10CC5">>>>, <<"U+10C86", <<"U+10CC6">>>>, <<"U+10C87",
    <<"U+10CC7">>>>, <<"U+10C88", <<"U+10CC8">>>>, <<"U+10C89", <<"U+10CC9">>>>, <<"U+10C8A",
    <<"U+10CCA">>>>, <<"U+10C8B", <<"U+10CCB">>>>, <<"U+10C8C", <<"U+10CCC">>>>, <<"U+10C8D",
    <<"U+10CCD">>>>, <<"U+10C8E", <<"U+10CCE">>>>, <<"U+10C8F", <<"U+10CCF">>>>, <<"U+10C90",
    <<"U+10CD0">>>>, <<"U+10C91", <<"U+10CD1">>>>, <<"U+10C92", <<"U+10CD2">>>>, <<"U+10C93",
    <<"U+10CD3">>>>, <<"U+10C94", <<"U+10CD4">>>>, <<"U+10C95", <<"U+10CD5">>>>, <<"U+10C96",
    <<"U+10CD6">>>>, <<"U+10C97", <<"U+10CD7">>>>, <<"U+10C98", <<"U+10CD8">>>>, <<"U+10C99",
    <<"U+10CD9">>>>, <<"U+10C9A", <<"U+10CDA">>>>, <<"U+10C9B", <<"U+10CDB">>>>, <<"U+10C9C",
    <<"U+10CDC">>>>, <<"U+10C9D", <<"U+10CDD">>>>, <<"U+10C9E", <<"U+10CDE">>>>, <<"U+10C9F",
    <<"U+10CDF">>>>, <<"U+10CA0", <<"U+10CE0">>>>, <<"U+10CA1", <<"U+10CE1">>>>, <<"U+10CA2",
    <<"U+10CE2">>>>, <<"U+10CA3", <<"U+10CE3">>>>, <<"U+10CA4", <<"U+10CE4">>>>, <<"U+10CA5",
    <<"U+10CE5">>>>, <<"U+10CA6", <<"U+10CE6">>>>, <<"U+10CA7", <<"U+10CE7">>>>, <<"U+10CA8",
    <<"U+10CE8">>>>, <<"U+10CA9", <<"U+10CE9">>>>, <<"U+10CAA", <<"U+10CEA">>>>, <<"U+10CAB",
    <<"U+10CEB">>>>, <<"U+10CAC", <<"U+10CEC">>>>, <<"U+10CAD", <<"U+10CED">>>>, <<"U+10CAE",
    <<"U+10CEE">>>>, <<"U+10CAF", <<"U+10CEF">>>>, <<"U+10CB0", <<"U+10CF0">>>>, <<"U+10CB1",
    <<"U+10CF1">>>>, <<"U+10CB2", <<"U+10CF2">>>>, <<"U+118A0", <<"U+118C0">>>>, <<"U+118A1",
    <<"U+118C1">>>>, <<"U+118A2", <<"U+118C2">>>>, <<"U+118A3", <<"U+118C3">>>>, <<"U+118A4",
    <<"U+118C4">>>>, <<"U+118A5", <<"U+118C5">>>>, <<"U+118A6", <<"U+118C6">>>>, <<"U+118A7",
    <<"U+118C7">>>>, <<"U+118A8", <<"U+118C8">>>>, <<"U+118A9", <<"U+118C9">>>>, <<"U+118AA",
    <<"U+118CA">>>>, <<"U+118AB", <<"U+118CB">>>>, <<"U+118AC", <<"U+118CC">>>>, <<"U+118AD",
    <<"U+118CD">>>>, <<"U+118AE", <<"U+118CE">>>>, <<"U+118AF", <<"U+118CF">>>>, <<"U+118B0",
    <<"U+118D0">>>>, <<"U+118B1", <<"U+118D1">>>>, <<"U+118B2", <<"U+118D2">>>>, <<"U+118B3",
    <<"U+118D3">>>>, <<"U+118B4", <<"U+118D4">>>>, <<"U+118B5", <<"U+118D5">>>>, <<"U+118B6",
    <<"U+118D6">>>>, <<"U+118B7", <<"U+118D7">>>>, <<"U+118B8", <<"U+118D8">>>>, <<"U+118B9",
    <<"U+118D9">>>>, <<"U+118BA", <<"U+118DA">>>>, <<"U+118BB", <<"U+118DB">>>>, <<"U+118BC",
    <<"U+118DC">>>>, <<"U+118BD", <<"U+118DD">>>>, <<"U+118BE", <<"U+118DE">>>>, <<"U+118BF",
    <<"U+118DF">>>>, <<"U+16E40", <<"U+16E60">>>>, <<"U+16E41", <<"U+16E61">>>>, <<"U+16E42",
    <<"U+16E62">>>>, <<"U+16E43", <<"U+16E63">>>>, <<"U+16E44", <<"U+16E64">>>>, <<"U+16E45",
    <<"U+16E65">>>>, <<"U+16E46", <<"U+16E66">>>>, <<"U+16E47", <<"U+16E67">>>>, <<"U+16E48",
    <<"U+16E68">>>>, <<"U+16E49", <<"U+16E69">>>>, <<"U+16E4A", <<"U+16E6A">>>>, <<"U+16E4B",
    <<"U+16E6B">>>>, <<"U+16E4C", <<"U+16E6C">>>>, <<"U+16E4D", <<"U+16E6D">>>>, <<"U+16E4E",
    <<"U+16E6E">>>>, <<"U+16E4F", <<"U+16E6F">>>>, <<"U+16E50", <<"U+16E70">>>>, <<"U+16E51",
    <<"U+16E71">>>>, <<"U+16E52", <<"U+16E72">>>>, <<"U+16E53", <<"U+16E73">>>>, <<"U+16E54",
    <<"U+16E74">>>>, <<"U+16E55", <<"U+16E75">>>>, <<"U+16E56", <<"U+16E76">>>>, <<"U+16E57",
    <<"U+16E77">>>>, <<"U+16E58", <<"U+16E78">>>>, <<"U+16E59", <<"U+16E79">>>>, <<"U+16E5A",
    <<"U+16E7A">>>>, <<"U+16E5B", <<"U+16E7B">>>>, <<"U+16E5C", <<"U+16E7C">>>>, <<"U+16E5D",
    <<"U+16E7D">>>>, <<"U+16E5E", <<"U+16E7E">>>>, <<"U+16E5F", <<"U+16E7F">>>>, <<"U+1E900",
    <<"U+1E922">>>>, <<"U+1E901", <<"U+1E923">>>>, <<"U+1E902", <<"U+1E924">>>>, <<"U+1E903",
    <<"U+1E925">>>>, <<"U+1E904", <<"U+1E926">>>>, <<"U+1E905", <<"U+1E927">>>>, <<"U+1E906",
    <<"U+1E928">>>>, <<"U+1E907", <<"U+1E929">>>>, <<"U+1E908", <<"U+1E92A">>>>, <<"U+1E909",
    <<"U+1E92B">>>>, <<"U+1E90A", <<"U+1E92C">>>>, <<"U+1E90B", <<"U+1E92D">>>>, <<"U+1E90C",
    <<"U+1E92E">>>>, <<"U+1E90D", <<"U+1E92F">>>>, <<"U+1E90E", <<"U+1E930">>>>, <<"U+1E90F",
    <<"U+1E931">>>>, <<"U+1E910", <<"U+1E932">>>>, <<"U+1E911", <<"U+1E933">>>>, <<"U+1E912",
    <<"U+1E934">>>>, <<"U+1E913", <<"U+1E935">>>>, <<"U+1E914", <<"U+1E936">>>>, <<"U+1E915",
    <<"U+1E937">>>>, <<"U+1E916", <<"U+1E938">>>>, <<"U+1E917", <<"U+1E939">>>>, <<"U+1E918",
    <<"U+1E93A">>>>, <<"U+1E919", <<"U+1E93B">>>>, <<"U+1E91A", <<"U+1E93C">>>>, <<"U+1E91B",
    <<"U+1E93D">>>>, <<"U+1E91C", <<"U+1E93E">>>>, <<"U+1E91D", <<"U+1E93F">>>>, <<"U+1E91E",
    <<"U+1E940">>>>, <<"U+1E91F", <<"U+1E941">>>>, <<"U+1E920", <<"U+1E942">>>>, <<"U+1E921",
    <<"U+1E943">>>> }
\* The characters str.lower() takes for cased letters when it looks for the
\* end of a word, those it skips there being left out.
CasedLetters == {
    "A", "B", "C", "D", "E", "F", "G", "H", "I", "J", "K", "L", "M", "N", "O", "P", "Q", "R",
    "S", "T", "U", "V", "W", "X", "Y", "Z", "a", "b", "c", "d", "e", "f", "g", "h", "i", "j",
    "k", "l", "m", "n", "o", "p", "q", "r", "s", "t", "u", "v", "w", "x", "y", "z", "U+00AA",
    "U+00B5", "U+00BA", "U+00C0", "U+00C1", "U+00C2", "U+00C3", "U+00C4", "U+00C5", "U+00C6",
    "U+00C7", "U+00C8", "U+00C9", "U+00CA", "U+00CB", "U+00CC", "U+00CD", "U+00CE", "U+00CF",
    "U+00D0", "U+00D1", "U+00D2", "U+00D3", "U+00D4", "U+00D5", "U+00D6", "U+00D8", "U+00D9",
    "U+00DA", "U+00DB", "U+00DC", "U+00DD", "U+00DE", "U+00DF", "U+00E0", "U+00E1", "U+00E2",
    "U+00E3", "U+00E4", "U+00E5", "U+00E6", "U+00E7", "U+00E8", "U+00E9", "U+00EA", "U+00EB",
    "U+00EC", "U+00ED", "U+00EE", "U+00EF", "U+00F0", "U+00F1", "U+00F2", "U+00F3", "U+00F4",
    "U+00F5", "U+00F6", "U+00F8", "U+00F9", "U+00FA", "U+00FB", "U+00FC", "U+00FD", "U+00FE",
    "U+00FF", "U+0100", "U+0101", "U+0102", "U+0103", "U+0104", "U+0105", "U+0106", "U+0107",
    "U+0108", "U+0109", "U+010A", "U+010B", "U+010C", "U+010D", "U+010E", "U+010F", "U+0110",
    "U+0111", "U+0112", "U+0113", "U+0114", "U+0115", "U+0116", "U+0117", "U+0118", "U+0119",
    "U+011A", "U+011B", "U+011C", "U+011D", "U+011E", "U+011F", "U+0120", "U+0121", "U+0122",
    "U+0123", "U+0124", "U+0125", "U+0126", "U+0127", "U+0128", "U+0129", "U+012A", "U+012B",
    "U+012C", "U+012D", "U+012E", "U+012F", "U+0130", "U+0131", "U+0132", "U+0133", "U+0134",
    "U+0135", "U+0136", "U+0137", "U+0138", "U+0139", "U+013A", "U+013B", "U+013C", "U+013D",
    "U+013E", "U+013F", "U+0140", "U+0141", "U+0142", "U+0143", "U+0144", "U+0145", "U+0146",
    "U+0147", "U+0148", "U+0149", "U+014A", "U+014B", "U+014C", "U+014D", "U+014E", "U+014F",
    "U+0150", "U+0151", "U+0152", "U+0153", "U+0154", "U+0155", "U+0156", "U+0157", "U+0158",
    "U+0159", "U+015A", "U+015B", "U+015C", "U+015D", "U+015E", "U+015F", "U+0160", "U+0161",
    "U+0162", "U+0163", "U+0164", "U+0165", "U+0166", "U+0167", "U+0168", "U+0169", "U+016A",
    "U+016B", "U+016C", "U+016D", "U+016E", "U+016F", "U+0170", "U+0171", "U+0172", "U+0173",
    "U+0174", "U+0175", "U+0176", "U+0177", "U+0178", "U+0179", "U+017A", "U+017B", "U+017C",
    "U+017D", "U+017E", "U+017F", "U+0180", "U+0181", "U+0182", "U+0183", "U+0184", "U+0185",
    "U+0186", "U+0187", "U+0188", "U+0189", "U+018A", "U+018B", "U+018C", "U+018D", "U+018E",
    "U+018F", "U+0190", "U+0191", "U+0192", "U+0193", "U+0194", "U+0195", "U+0196", "U+0197",
    "U+0198", "U+0199", "U+019A", "U+019B", "U+019C", "U+019D", "U+019E", "U+019F", "U+01A0",
    "U+01A1", "U+01A2", "U+01A3", "U+01A4", "U+01A5", "U+01A6", "U+01A7", "U+01A8", "U+01A9",
    "U+01AA", "U+01AB", "U+01AC", "U+01AD", "U+01AE", "U+01AF", "U+01B0", "U+01B1", "U+01B2",
    "U+01B3", "U+01B4", "U+01B5", "U+01B6", "U+01B7", "U+01B8", "U+01B9", "U+01BA", "U+01BC",
    "U+01BD", "U+01BE", "U+01BF", "U+01C4", "U+01C5", "U+01C6", "U+01C7", "U+01C8", "U+01C9",
    "U+01CA", "U+01CB", "U+01CC", "U+01CD", "U+01CE", "U+01CF", "U+01D0", "U+01D1", "U+01D2",
    "U+01D3", "U+01D4", "U+01D5", "U+01D6", "U+01D7", "U+01D8", "U+01D9", "U+01DA", "U+01DB",
    "U+01DC", "U+01DD", "U+01DE", "U+01DF", "U+01E0", "U+01E1", "U+01E2", "U+01E3", "U+01E4",
    "U+01E5", "U+01E6", "U+01E7", "U+01E8", "U+01E9", "U+01EA", "U+01EB", "U+01EC", "U+01ED",
    "U+01EE", "U+01EF", "U+01F0", "U+01F1", "U+01F2", "U+01F3", "U+01F4", "U+01F5", "U+01F6",
    "U+01F7", "U+01F8", "U+01F9", "U+01FA", "U+01FB", "U+01FC", "U+01FD", "U+01FE", "U+01FF",
    "U+0200", "U+0201", "U+0202", "U+0203", "U+0204", "U+0205", "U+0206", "U+0207", "U+0208",
    "U+0209", "U+020A", "U+020B", "U+020C", "U+020D", "U+020E", "U+020F", "U+0210", "U+0211",
    "U+0212", "U+0213", "U+0214", "U+0215", "U+0216", "U+0217", "U+0218", "U+0219", "U+021A",
    "U+021B", "U+021C", "U+021D", "U+021E", "U+021F", "U+0220", "U+0221", "U+0222", "U+0223",
    "U+0224", "U+0225", "U+0226", "U+0227", "U+0228", "U+0229", "U+022A", "U+022B", "U+022C",
    "U+022D", "U+022E", "U+022F", "U+0230", "U+0231", "U+0232", "U+0233", "U+0234", "U+0235",
    "U+0236", "U+0237", "U+0238", "U+0239", "U+023A", "U+023B", "U+023C", "U+023D", "U+023E",
    "U+023F", "U+0240", "U+0241", "U+0242", "U+0243", "U+0244", "U+0245", "U+0246", "U+0247",
    "U+0248", "U+0249", "U+024A", "U+024B", "U+024C", "U+024D", "U+024E", "U+024F", "U+0250",
    "U+0251", "U+0252", "U+0253", "U+0254", "U+0255", "U+0256", "U+0257", "U+0258", "U+0259",
    "U+025A", "U+025B", "U+025C", "U+025D", "U+025E", "U+025F", "U+0260", "U+0261", "U+0262",
    "U+0263", "U+0264", "U+0265", "U+0266", "U+0267", "U+0268", "U+0269", "U+026A", "U+026B",
    "U+026C", "U+026D", "U+026E", "U+026F", "U+0270", "U+0271", "U+0272", "U+0273", "U+0274",
    "U+0275", "U+0276", "U+0277", "U+0278", "U+0279", "U+027A", "U+027B", "U+027C", "U+027D",
    "U+027E", "U+027F", "U+0280", "U+0281", "U+0282", "U+0283", "U+0284", "U+0285", "U+0286",
    "U+0287", "U+0288", "U+0289", "U+028A", "U+028B", "U+028C", "U+028D", "U+028E", "U+028F",
    "U+0290", "U+0291", "U+0292", "U+0293", "U+0295", "U+0296", "U+0297", "U+0298", "U+0299",
    "U+029A", "U+029B", "U+029C", "U+029D", "U+029E", "U+029F", "U+02A0", "U+02A1", "U+02A2",
    "U+02A3", "U+02A4", "U+02A5", "U+02A6", "U+02A7", "U+02A8", "U+02A9", "U+02AA", "U+02AB",
    "U+02AC", "U+02AD", "U+02AE", "U+02AF", "U+0370", "U+0371", "U+0372", "U+0373", "U+0376",
    "U+0377", "U+037B", "U+037C", "U+037D", "U+037F", "U+0386", "U+0388", "U+0389", "U+038A",
    "U+038C", "U+038E", "U+038F", "U+0390", "U+0391", "U+0392", "U+0393", "U+0394", "U+0395",
    "U+0396", "U+0397", "U+0398", "U+0399", "U+039A", "U+039B", "U+039C", "U+039D", "U+039E",
    "U+039F", "U+03A0", "U+03A1", "U+03A3", "U+03A4", "U+03A5", "U+03A6", "U+03A7", "U+03A8",
    "U+03A9", "U+03AA", "U+03AB", "U+03AC", "U+03AD", "U+03AE", "U+03AF", "U+03B0", "U+03B1",
    "U+03B2", "U+03B3", "U+03B4", "U+03B5", "U+03B6", "U+03B7", "U+03B8", "U+03B9", "U+03BA",
    "U+03BB", "U+03BC", "U+03BD", "U+03BE", "U+03BF", "U+03C0", "U+03C1", "U+03C2", "U+03C3",
    "U+03C4", "U+03C5", "U+03C6", "U+03C7", "U+03C8", "U+03C9", "U+03CA", "U+03CB", "U+03CC",
    "U+03CD", "U+03CE", "U+03CF", "U+03D0", "U+03D1", "U+03D2", "U+03D3", "U+03D4", "U+03D5",
    "U+03D6", "U+03D7", "U+03D8", "U+03D9", "U+03DA", "U+03DB", "U+03DC", "U+03DD", "U+03DE",
    "U+03DF", "U+03E0", "U+03E1", "U+03E2", "U+03E3", "U+03E4", "U+03E5", "U+03E6", "U+03E7",
    "U+03E8", "U+03E9", "U+03EA", "U+03EB", "U+03EC", "U+03ED", "U+03EE", "U+03EF", "U+03F0",
    "U+03F1", "U+03F2", "U+03F3", "U+03F4", "U+03F5", "U+03F7", "U+03F8", "U+03F9", "U+03FA",
    "U+03FB", "U+03FC", "U+03FD", "U+03FE", "U+03FF", "U+0400", "U+0401", "U+0402", "U+0403",
    "U+0404", "U+0405", "U+0406", "U+0407", "U+0408", "U+0409", "U+040A", "U+040B", "U+040C",
    "U+040D", "U+040E", "U+040F", "U+0410", "U+0411", "U+0412", "U+0413", "U+0414", "U+0415",
    "U+0416", "U+0417", "U+0418", "U+0419", "U+041A", "U+041B", "U+041C", "U+041D", "U+041E",
    "U+041F", "U+0420", "U+0421", "U+0422", "U+0423", "U+0424", "U+0425", "U+0426", "U+0427",
    "U+0428", "U+0429", "U+042A", "U+042B", "U+042C", "U+042D", "U+042E", "U+042F", "U+0430",
    "U+0431", "U+0432", "U+0433", "U+0434", "U+0435", "U+0436", "U+0437", "U+0438", "U+0439",
    "U+043A", "U+043B", "U+043C", "U+043D", "U+043E", "U+043F", "U+0440", "U+0441", "U+0442",
    "U+0443", "U+0444", "U+0445", "U+0446", "U+0447", "U+0448", "U+0449", "U+044A", "U+044B",
    "U+044C", "U+044D", "U+044E", "U+044F", "U+0450", "U+0451", "U+0452", "U+0453", "U+0454",
    "U+0455", "U+0456", "U+0457", "U+0458", "U+0459", "U+045A", "U+045B", "U+045C", "U+045D",
    "U+045E", "U+045F", "U+0460", "U+0461", "U+0462", "U+0463", "U+0464", "U+0465", "U+0466",
    "U+0467", "U+0468", "U+0469", "U+046A", "U+046B", "U+046C", "U+046D", "U+046E", "U+046F",
    "U+0470", "U+0471", "U+0472", "U+0473", "U+0474", "U+0475", "U+0476", "U+0477", "U+0478",
    "U+0479", "U+047A", "U+047B", "U+047C", "U+047D", "U+047E", "U+047F", "U+0480", "U+0481",
    "U+048A", "U+048B", "U+048C", "U+048D", "U+048E", "U+048F", "U+0490", "U+0491", "U+0492",
    "U+0493", "U+0494", "U+0495", "U+0496", "U+0497", "U+0498", "U+0499", "U+049A", "U+049B",
    "U+049C", "U+049D", "U+049E", "U+049F", "U+04A0", "U+04A1", "U+04A2", "U+04A3", "U+04A4",
    "U+04A5", "U+04A6", "U+04A7", "U+04A8", "U+04A9", "U+04AA", "U+04AB", "U+04AC", "U+04AD",
    "U+04AE", "U+04AF", "U+04B0", "U+04B1", "U+04B2", "U+04B3", "U+04B4", "U+04B5", "U+04B6",
    "U+04B7", "U+04B8", "U+04B9", "U+04BA", "U+04BB", "U+04BC", "U+04BD", "U+04BE", "U+04BF",
    "U+04C0", "U+04C1", "U+04C2", "U+04C3", "U+04C4", "U+04C5", "U+04C6", "U+04C7", "U+04C8",
    "U+04C9", "U+04CA", "U+04CB", "U+04CC", "U+04CD", "U+04CE", "U+04CF", "U+04D0", "U+04D1",
    "U+04D2", "U+04D3", "U+04D4", "U+04D5", "U+04D6", "U+04D7", "U+04D8", "U+04D9", "U+04DA",
    "U+04DB", "U+04DC", "U+04DD", "U+04DE", "U+04DF", "U+04E0", "U+04E1", "U+04E2", "U+04E3",
    "U+04E4", "U+04E5", "U+04E6", "U+04E7", "U+04E8", "U+04E9", "U+04EA", "U+04EB", "U+04EC",
    "U+04ED", "U+04EE", "U+04EF", "U+04F0", "U+04F1", "U+04F2", "U+04F3", "U+04F4", "U+04F5",
    "U+04F6", "U+04F7", "U+04F8", "U+04F9", "U+04FA", "U+04FB", "U+04FC", "U+04FD", "U+04FE",
    "U+04FF", "U+0500", "U+0501", "U+0502", "U+0503", "U+0504", "U+0505", "U+0506", "U+0507",
    "U+0508", "U+0509", "U+050A", "U+050B", "U+050C", "U+050D", "U+050E", "U+050F", "U+0510",
    "U+0511", "U+0512", "U+0513", "U+0514", "U+0515", "U+0516", "U+0517", "U+0518", "U+0519",
    "U+051A", "U+051B", "U+051C", "U+051D", "U+051E", "U+051F", "U+0520", "U+0521", "U+0522",
    "U+0523", "U+0524", "U+0525", "U+0526", "U+0527", "U+0528", "U+0529", "U+052A", "U+052B",
    "U+052C", "U+052D", "U+052E", "U+052F", "U+0531", "U+0532", "U+0533", "U+0534", "U+0535",
    "U+0536", "U+0537", "U+0538", "U+0539", "U+053A", "U+053B", "U+053C", "U+053D", "U+053E",
    "U+053F", "U+0540", "U+0541", "U+0542", "U+0543", "U+0544", "U+0545", "U+0546", "U+0547",
    "U+0548", "U+0549", "U+054A", "U+054B", "U+054C", "U+054D", "U+054E", "U+054F", "U+0550",
    "U+0551", "U+0552", "U+0553", "U+0554", "U+0555", "U+0556", "U+0560", "U+0561", "U+0562",
    "U+0563", "U+0564", "U+0565", "U+0566", "U+0567", "U+0568", "U+0569", "U+056A", "U+056B",
    "U+056C", "U+056D", "U+056E", "U+056F", "U+0570", "U+0571", "U+0572", "U+0573", "U+0574",
    "U+0575", "U+0576", "U+0577", "U+0578", "U+0579", "U+057A", "U+057B", "U+057C", "U+057D",
    "U+057E", "U+057F", "U+0580", "U+0581", "U+0582", "U+0583", "U+0584", "U+0585", "U+0586",
    "U+0587", "U+0588", "U+10A0", "U+10A1", "U+10A2", "U+10A3", "U+10A4", "U+10A5", "U+10A6",
    "U+10A7", "U+10A8", "U+10A9", "U+10AA", "U+10AB", "U+10AC", "U+10AD", "U+10AE", "U+10AF",
    "U+10B0", "U+10B1", "U+10B2", "U+10B3", "U+10B4", "U+10B5", "U+10B6", "U+10B7", "U+10B8",
    "U+10B9", "U+10BA", "U+10BB", "U+10BC", "U+10BD", "U+10BE", "U+10BF", "U+10C0", "U+10C1",
    "U+10C2", "U+10C3", "U+10C4", "U+10C5", "U+10C7", "U+10CD", "U+10D0", "U+10D1", "U+10D2",
    "U+10D3", "U+10D4", "U+10D5", "U+10D6", "U+10D7", "U+10D8", "U+10D9", "U+10DA", "U+10DB",
    "U+10DC", "U+10DD", "U+10DE", "U+10DF", "U+10E0", "U+10E1", "U+10E2", "U+10E3", "U+10E4",
    "U+10E5", "U+10E6", "U+10E7", "U+10E8", "U+10E9", "U+10EA", "U+10EB", "U+10EC", "U+10ED",
    "U+10EE", "U+10EF", "U+10F0", "U+10F1", "U+10F2", "U+10F3", "U+10F4", "U+10F5", "U+10F6",
    "U+10F7", "U+10F8", "U+10F9", "U+10FA", "U+10FD", "U+10FE", "U+10FF", "U+13A0", "U+13A1",
    "U+13A2", "U+13A3", "U+13A4", "U+13A5", "U+13A6", "U+13A7", "U+13A8", "U+13A9", "U+13AA",
    "U+13AB", "U+13AC", "U+13AD", "U+13AE", "U+13AF", "U+13B0", "U+13B1", "U+13B2", "U+13B3",
    "U+13B4", "U+13B5", "U+13B6", "U+13B7", "U+13B8", "U+13B9", "U+13BA", "U+13BB", "U+13BC",
    "U+13BD", "U+13BE", "U+13BF", "U+13C0", "U+13C1", "U+13C2", "U+13C3", "U+13C4", "U+13C5",
    "U+13C6", "U+13C7", "U+13C8", "U+13C9", "U+13CA", "U+13CB", "U+13CC", "U+13CD", "U+13CE",
    "U+13CF", "U+13D0", "U+13D1", "U+13D2", "U+13D3", "U+13D4", "U+13D5", "U+13D6", "U+13D7",
    "U+13D8", "U+13D9", "U+13DA", "U+13DB", "U+13DC", "U+13DD", "U+13DE", "U+13DF", "U+13E0",
    "U+13E1", "U+13E2", "U+13E3", "U+13E4", "U+13E5", "U+13E6", "U+13E7", "U+13E8", "U+13E9",
    "U+13EA", "U+13EB", "U+13EC", "U+13ED", "U+13EE", "U+13EF", "U+13F0", "U+13F1", "U+13F2",
    "U+13F3", "U+13F4", "U+13F5", "U+13F8", "U+13F9", "U+13FA", "U+13FB", "U+13FC", "U+13FD",
    "U+1C80", "U+1C81", "U+1C82", "U+1C83", "U+1C84", "U+1C85", "U+1C86", "U+1C87", "U+1C88",
    "U+1C90", "U+1C91", "U+1C92", "U+1C93", "U+1C94", "U+1C95", "U+1C96", "U+1C97", "U+1C98",
    "U+1C99", "U+1C9A", "U+1C9B", "U+1C9C", "U+1C9D", "U+1C9E", "U+1C9F", "U+1CA0", "U+1CA1",
    "U+1CA2", "U+1CA3", "U+1CA4", "U+1CA5", "U+1CA6", "U+1CA7", "U+1CA8", "U+1CA9", "U+1CAA",
    "U+1CAB", "U+1CAC", "U+1CAD", "U+1CAE", "U+1CAF", "U+1CB0", "U+1CB1", "U+1CB2", "U+1CB3",
    "U+1CB4", "U+1CB5", "U+1CB6", "U+1CB7", "U+1CB8", "U+1CB9", "U+1CBA", "U+1CBD", "U+1CBE",
    "U+1CBF", "U+1D00", "U+1D01", "U+1D02", "U+1D03", "U+1D04", "U+1D05", "U+1D06", "U+1D07",
    "U+1D08", "U+1D09", "U+1D0A", "U+1D0B", "U+1D0C", "U+1D0D", "U+1D0E", "U+1D0F", "U+1D10",
    "U+1D11", "U+1D12", "U+1D13", "U+1D14", "U+1D15", "U+1D16", "U+1D17", "U+1D18", "U+1D19",
    "U+1D1A", "U+1D1B", "U+1D1C", "U+1D1D", "U+1D1E", "U+1D1F", "U+1D20", "U+1D21", "U+1D22",
    "U+1D23", "U+1D24", "U+1D25", "U+1D26", "U+1D27", "U+1D28", "U+1D29", "U+1D2A", "U+1D2B",
    "U+1D6B", "U+1D6C", "U+1D6D", "U+1D6E", "U+1D6F", "U+1D70", "U+1D71", "U+1D72", "U+1D73",
    "U+1D74", "U+1D75", "U+1D76", "U+1D77", "U+1D79", "U+1D7A", "U+1D7B", "U+1D7C", "U+1D7D",
    "U+1D7E", "U+1D7F", "U+1D80", "U+1D81", "U+1D82", "U+1D83", "U+1D84", "U+1D85", "U+1D86",
    "U+1D87", "U+1D88", "U+1D89", "U+1D8A", "U+1D8B", "U+1D8C", "U+1D8D", "U+1D8E", "U+1D8F",
    "U+1D90", "U+1D91", "U+1D92", "U+1D93", "U+1D94", "U+1D95", "U+1D96", "U+1D97", "U+1D98",
    "U+1D99", "U+1D9A", "U+1E00", "U+1E01", "U+1E02", "U+1E03", "U+1E04", "U+1E05", "U+1E06",
    "U+1E07", "U+1E08", "U+1E09", "U+1E0A", "U+1E0B", "U+1E0C", "U+1E0D", "U+1E0E", "U+1E0F",
    "U+1E10", "U+1E11", "U+1E12", "U+1E13", "U+1E14", "U+1E15", "U+1E16", "U+1E17", "U+1E18",
    "U+1E19", "U+1E1A", "U+1E1B", "U+1E1C", "U+1E1D", "U+1E1E", "U+1E1F", "U+1E20", "U+1E21",
    "U+1E22", "U+1E23", "U+1E24", "U+1E25", "U+1E26", "U+1E27", "U+1E28", "U+1E29", "U+1E2A",
    "U+1E2B", "U+1E2C", "U+1E2D", "U+1E2E", "U+1E2F", "U+1E30", "U+1E31", "U+1E32", "U+1E33",
    "U+1E34", "U+1E35", "U+1E36", "U+1E37", "U+1E38", "U+1E39", "U+1E3A", "U+1E3B", "U+1E3C",
    "U+1E3D", "U+1E3E", "U+1E3F", "U+1E40", "U+1E41", "U+1E42", "U+1E43", "U+1E44", "U+1E45",
    "U+1E46", "U+1E47", "U+1E48", "U+1E49", "U+1E4A", "U+1E4B", "U+1E4C", "U+1E4D", "U+1E4E",
    "U+1E4F", "U+1E50", "U+1E51", "U+1E52", "U+1E53", "U+1E54", "U+1E55", "U+1E56", "U+1E57",
    "U+1E58", "U+1E59", "U+1E5A", "U+1E5B", "U+1E5C", "U+1E5D", "U+1E5E", "U+1E5F", "U+1E60",
    "U+1E61", "U+1E62", "U+1E63", "U+1E64", "U+1E65", "U+1E66", "U+1E67", "U+1E68", "U+1E69",
    "U+1E6A", "U+1E6B", "U+1E6C", "U+1E6D", "U+1E6E", "U+1E6F", "U+1E70", "U+1E71", "U+1E72",
    "U+1E73", "U+1E74", "U+1E75", "U+1E76", "U+1E77", "U+1E78", "U+1E79", "U+1E7A", "U+1E7B",
    "U+1E7C", "U+1E7D", "U+1E7E", "U+1E7F", "U+1E80", "U+1E81", "U+1E82", "U+1E83", "U+1E84",
    "U+1E85", "U+1E86", "U+1E87", "U+1E88", "U+1E89", "U+1E8A", "U+1E8B", "U+1E8C", "U+1E8D",
    "U+1E8E", "U+1E8F", "U+1E90", "U+1E91", "U+1E92", "U+1E93", "U+1E94", "U+1E95", "U+1E96",
    "U+1E97", "U+1E98", "U+1E99", "U+1E9A", "U+1E9B", "U+1E9C", "U+1E9D", "U+1E9E", "U+1E9F",
    "U+1EA0", "U+1EA1", "U+1EA2", "U+1EA3", "U+1EA4", "U+1EA5", "U+1EA6", "U+1EA7", "U+1EA8",
    "U+1EA9", "U+1EAA", "U+1EAB", "U+1EAC", "U+1EAD", "U+1EAE", "U+1EAF", "U+1EB0", "U+1EB1",
    "U+1EB2", "U+1EB3", "U+1EB4", "U+1EB5", "U+1EB6", "U+1EB7", "U+1EB8", "U+1EB9", "U+1EBA",
    "U+1EBB", "U+1EBC", "U+1EBD", "U+1EBE", "U+1EBF", "U+1EC0", "U+1EC1", "U+1EC2", "U+1EC3",
    "U+1EC4", "U+1EC5", "U+1EC6", "U+1EC7", "U+1EC8", "U+1EC9", "U+1ECA", "U+1ECB", "U+1ECC",
    "U+1ECD", "U+1ECE", "U+1ECF", "U+1ED0", "U+1ED1", "U+1ED2", "U+1ED3", "U+1ED4", "U+1ED5",
    "U+1ED6", "U+1ED7", "U+1ED8", "U+1ED9", "U+1EDA", "U+1EDB", "U+1EDC", "U+1EDD", "U+1EDE",
    "U+1EDF", "U+1EE0", "U+1EE1", "U+1EE2", "U+1EE3", "U+1EE4", "U+1EE5", "U+1EE6", "U+1EE7",
    "U+1EE8", "U+1EE9", "U+1EEA", "U+1EEB", "U+1EEC", "U+1EED", "U+1EEE", "U+1EEF", "U+1EF0",
    "U+1EF1", "U+1EF2", "U+1EF3", "U+1EF4", "U+1EF5", "U+1EF6", "U+1EF7", "U+1EF8", "U+1EF9",
    "U+1EFA", "U+1EFB", "U+1EFC", "U+1EFD", "U+1EFE", "U+1EFF", "U+1F00", "U+1F01", "U+1F02",
    "U+1F03", "U+1F04", "U+1F05", "U+1F06", "U+1F07", "U+1F08", "U+1F09", "U+1F0A", "U+1F0B",
    "U+1F0C", "U+1F0D", "U+1F0E", "U+1F0F", "U+1F10", "U+1F11", "U+1F12", "U+1F13", "U+1F14",
    "U+1F15", "U+1F18", "U+1F19", "U+1F1A", "U+1F1B", "U+1F1C", "U+1F1D", "U+1F20", "U+1F21",
    "U+1F22", "U+1F23", "U+1F24", "U+1F25", "U+1F26", "U+1F27", "U+1F28", "U+1F29", "U+1F2A",
    "U+1F2B", "U+1F2C", "U+1F2D", "U+1F2E", "U+1F2F", "U+1F30", "U+1F31", "U+1F32", "U+1F33",
    "U+1F34", "U+1F35", "U+1F36", "U+1F37", "U+1F38", "U+1F39", "U+1F3A", "U+1F3B", "U+1F3C",
    "U+1F3D", "U+1F3E", "U+1F3F", "U+1F40", "U+1F41", "U+1F42", "U+1F43", "U+1F44", "U+1F45",
    "U+1F48", "U+1F49", "U+1F4A", "U+1F4B", "U+1F4C", "U+1F4D", "U+1F50", "U+1F51", "U+1F52",
    "U+1F53", "U+1F54", "U+1F55", "U+1F56", "U+1F57", "U+1F59", "U+1F5B", "U+1F5D", "U+1F5F",
    "U+1F60", "U+1F61", "U+1F62", "U+1F63", "U+1F64", "U+1F65", "U+1F66", "U+1F67", "U+1F68",
    "U+1F69", "U+1F6A", "U+1F6B", "U+1F6C", "U+1F6D", "U+1F6E", "U+1F6F", "U+1F70", "U+1F71",
    "U+1F72", "U+1F73", "U+1F74", "U+1F75", "U+1F76", "U+1F77", "U+1F78", "U+1F79", "U+1F7A",
    "U+1F7B", "U+1F7C", "U+1F7D", "U+1F80", "U+1F81", "U+1F82", "U+1F83", "U+1F84", "U+1F85",
    "U+1F86", "U+1F87", "U+1F88", "U+1F89", "U+1F8A", "U+1F8B", "U+1F8C", "U+1F8D", "U+1F8E",
    "U+1F8F", "U+1F90", "U+1F91", "U+1F92", "U+1F93", "U+1F94", "U+1F95", "U+1F96", "U+1F97",
    "U+1F98", "U+1F99", "U+1F9A", "U+1F9B", "U+1F9C", "U+1F9D", "U+1F9E", "U+1F9F", "U+1FA0",
    "U+1FA1", "U+1FA2", "U+1FA3", "U+1FA4", "U+1FA5", "U+1FA6", "U+1FA7", "U+1FA8", "U+1FA9",
    "U+1FAA", "U+1FAB", "U+1FAC", "U+1FAD", "U+1FAE", "U+1FAF", "U+1FB0", "U+1FB1", "U+1FB2",
    "U+1FB3", "U+1FB4", "U+1FB6", "U+1FB7", "U+1FB8", "U+1FB9", "U+1FBA", "U+1FBB", "U+1FBC",
    "U+1FBE", "U+1FC2", "U+1FC3", "U+1FC4", "U+1FC6", "U+1FC7", "U+1FC8", "U+1FC9", "U+1FCA",
    "U+1FCB", "U+1FCC", "U+1FD0", "U+1FD1", "U+1FD2", "U+1FD3", "U+1FD6", "U+1FD7", "U+1FD8",
    "U+1FD9", "U+1FDA", "U+1FDB", "U+1FE0", "U+1FE1", "U+1FE2", "U+1FE3", "U+1FE4", "U+1FE5",
    "U+1FE6", "U+1FE7", "U+1FE8", "U+1FE9", "U+1FEA", "U+1FEB", "U+1FEC", "U+1FF2", "U+1FF3",
    "U+1FF4", "U+1FF6", "U+1FF7", "U+1FF8", "U+1FF9", "U+1FFA", "U+1FFB", "U+1FFC", "U+2102",
    "U+2107", "U+210A", "U+210B", "U+210C", "U+210D", "U+210E", "U+210F", "U+2110", "U+2111",
    "U+2112", "U+2113", "U+2115", "U+2119", "U+211A", "U+211B", "U+211C", "U+211D", "U+2124",
    "U+2126", "U+2128", "U+212A", "U+212B", "U+212C", "U+212D", "U+212F", "U+2130", "U+2131",
    "U+2132", "U+2133", "U+2134", "U+2139", "U+213C", "U+213D", "U+213E", "U+213F", "U+2145",
    "U+2146", "U+2147", "U+2148", "U+2149", "U+214E", "U+2160", "U+2161", "U+2162", "U+2163",
    "U+2164", "U+2165", "U+2166", "U+2167", "U+2168", "U+2169", "U+216A", "U+216B", "U+216C",
    "U+216D", "U+216E", "U+216F", "U+2170", "U+2171", "U+2172", "U+2173", "U+2174", "U+2175",
    "U+2176", "U+2177", "U+2178", "U+2179", "U+217A", "U+217B", "U+217C", "U+217D", "U+217E",
    "U+217F", "U+2183", "U+2184", "U+24B6", "U+24B7", "U+24B8", "U+24B9", "U+24BA", "U+24BB",
    "U+24BC", "U+24BD", "U+24BE", "U+24BF", "U+24C0", "U+24C1", "U+24C2", "U+24C3", "U+24C4",
    "U+24C5", "U+24C6", "U+24C7", "U+24C8", "U+24C9", "U+24CA", "U+24CB", "U+24CC", "U+24CD",
    "U+24CE", "U+24CF", "U+24D0", "U+24D1", "U+24D2", "U+24D3", "U+24D4", "U+24D5", "U+24D6",
    "U+24D7", "U+24D8", "U+24D9", "U+24DA", "U+24DB", "U+24DC", "U+24DD", "U+24DE", "U+24DF",
    "U+24E0", "U+24E1", "U+24E2", "U+24E3", "U+24E4", "U+24E5", "U+24E6", "U+24E7", "U+24E8",
    "U+24E9", "U+2C00", "U+2C01", "U+2C02", "U+2C03", "U+2C04", "U+2C05", "U+2C06", "U+2C07",
    "U+2C08", "U+2C09", "U+2C0A", "U+2C0B", "U+2C0C", "U+2C0D", "U+2C0E", "U+2C0F", "U+2C10",
    "U+2C11", "U+2C12", "U+2C13", "U+2C14", "U+2C15", "U+2C16", "U+2C17", "U+2C18", "U+2C19",
    "U+2C1A", "U+2C1B", "U+2C1C", "U+2C1D", "U+2C1E", "U+2C1F", "U+2C20", "U+2C21", "U+2C22",
    "U+2C23", "U+2C24", "U+2C25", "U+2C26", "U+2C27", "U+2C28", "U+2C29", "U+2C2A", "U+2C2B",
    "U+2C2C", "U+2C2D", "U+2C2E", "U+2C2F", "U+2C30", "U+2C31", "U+2C32", "U+2C33", "U+2C34",
    "U+2C35", "U+2C36", "U+2C37", "U+2C38", "U+2C39", "U+2C3A", "U+2C3B", "U+2C3C", "U+2C3D",
    "U+2C3E", "U+2C3F", "U+2C40", "U+2C41", "U+2C42", "U+2C43", "U+2C44", "U+2C45", "U+2C46",
    "U+2C47", "U+2C48", "U+2C49", "U+2C4A", "U+2C4B", "U+2C4C", "U+2C4D", "U+2C4E", "U+2C4F",
    "U+2C50", "U+2C51", "U+2C52", "U+2C53", "U+2C54", "U+2C55", "U+2C56", "U+2C57", "U+2C58",
    "U+2C59", "U+2C5A", "U+2C5B", "U+2C5C", "U+2C5D", "U+2C5E", "U+2C5F", "U+2C60", "U+2C61",
    "U+2C62", "U+2C63", "U+2C64", "U+2C65", "U+2C66", "U+2C67", "U+2C68", "U+2C69", "U+2C6A",
    "U+2C6B", "U+2C6C", "U+2C6D", "U+2C6E", "U+2C6F", "U+2C70", "U+2C71", "U+2C72", "U+2C73",
    "U+2C74", "U+2C75", "U+2C76", "U+2C77", "U+2C78", "U+2C79", "U+2C7A", "U+2C7B", "U+2C7E",
    "U+2C7F", "U+2C80", "U+2C81", "U+2C82", "U+2C83", "U+2C84", "U+2C85", "U+2C86", "U+2C87",
    "U+2C88", "U+2C89", "U+2C8A", "U+2C8B", "U+2C8C", "U+2C8D", "U+2C8E", "U+2C8F", "U+2C90",
    "U+2C91", "U+2C92", "U+2C93", "U+2C94", "U+2C95", "U+2C96", "U+2C97", "U+2C98", "U+2C99",
    "U+2C9A", "U+2C9B", "U+2C9C", "U+2C9D", "U+2C9E", "U+2C9F", "U+2CA0", "U+2CA1", "U+2CA2",
    "U+2CA3", "U+2CA4", "U+2CA5", "U+2CA6", "U+2CA7", "U+2CA8", "U+2CA9", "U+2CAA", "U+2CAB",
    "U+2CAC", "U+2CAD", "U+2CAE", "U+2CAF", "U+2CB0", "U+2CB1", "U+2CB2", "U+2CB3", "U+2CB4",
    "U+2CB5", "U+2CB6", "U+2CB7", "U+2CB8", "U+2CB9", "U+2CBA", "U+2CBB", "U+2CBC", "U+2CBD",
    "U+2CBE", "U+2CBF", "U+2CC0", "U+2CC1", "U+2CC2", "U+2CC3", "U+2CC4", "U+2CC5", "U+2CC6",
    "U+2CC7", "U+2CC8", "U+2CC9", "U+2CCA", "U+2CCB", "U+2CCC", "U+2CCD", "U+2CCE", "U+2CCF",
    "U+2CD0", "U+2CD1", "U+2CD2", "U+2CD3", "U+2CD4", "U+2CD5", "U+2CD6", "U+2CD7", "U+2CD8",
    "U+2CD9", "U+2CDA", "U+2CDB", "U+2CDC", "U+2CDD", "U+2CDE", "U+2CDF", "U+2CE0", "U+2CE1",
    "U+2CE2", "U+2CE3", "U+2CE4", "U+2CEB", "U+2CEC", "U+2CED", "U+2CEE", "U+2CF2", "U+2CF3",
    "U+2D00", "U+2D01", "U+2D02", "U+2D03", "U+2D04", "U+2D05", "U+2D06", "U+2D07", "U+2D08",
    "U+2D09", "U+2D0A", "U+2D0B", "U+2D0C", "U+2D0D", "U+2D0E", "U+2D0F", "U+2D10", "U+2D11",
    "U+2D12", "U+2D13", "U+2D14", "U+2D15", "U+2D16", "U+2D17", "U+2D18", "U+2D19", "U+2D1A",
    "U+2D1B", "U+2D1C", "U+2D1D", "U+2D1E", "U+2D1F", "U+2D20", "U+2D21", "U+2D22", "U+2D23",
    "U+2D24", "U+2D25", "U+2D27", "U+2D2D", "U+A640", "U+A641", "U+A642", "U+A643", "U+A644",
    "U+A645", "U+A646", "U+A647", "U+A648", "U+A649", "U+A64A", "U+A64B", "U+A64C", "U+A64D",
    "U+A64E", "U+A64F", "U+A650", "U+A651", "U+A652", "U+A653", "U+A654", "U+A655", "U+A656",
    "U+A657", "U+A658", "U+A659", "U+A65A", "U+A65B", "U+A65C", "U+A65D", "U+A65E", "U+A65F",
    "U+A660", "U+A661", "U+A662", "U+A663", "U+A664", "U+A665", "U+A666", "U+A667", "U+A668",
    "U+A669", "U+A66A", "U+A66B", "U+A66C", "U+A66D", "U+A680", "U+A681", "U+A682", "U+A683",
    "U+A684", "U+A685", "U+A686", "U+A687", "U+A688", "U+A689", "U+A68A", "U+A68B", "U+A68C",
    "U+A68D", "U+A68E", "U+A68F", "U+A690", "U+A691", "U+A692", "U+A693", "U+A694", "U+A695",
    "U+A696", "U+A697", "U+A698", "U+A699", "U+A69A", "U+A69B", "U+A722", "U+A723", "U+A724",
    "U+A725", "U+A726", "U+A727", "U+A728", "U+A729", "U+A72A", "U+A72B", "U+A72C", "U+A72D",
    "U+A72E", "U+A72F", "U+A730", "U+A731", "U+A732", "U+A733", "U+A734", "U+A735", "U+A736",
    "U+A737", "U+A738", "U+A739", "U+A73A", "U+A73B", "U+A73C", "U+A73D", "U+A73E", "U+A73F",
    "U+A740", "U+A741", "U+A742", "U+A743", "U+A744", "U+A745", "U+A746", "U+A747", "U+A748",
    "U+A749", "U+A74A", "U+A74B", "U+A74C", "U+A74D", "U+A74E", "U+A74F", "U+A750", "U+A751",
    "U+A752", "U+A753", "U+A754", "U+A755", "U+A756", "U+A757", "U+A758", "U+A759", "U+A75A",
    "U+A75B", "U+A75C", "U+A75D", "U+A75E", "U+A75F", "U+A760", "U+A761", "U+A762", "U+A763",
    "U+A764", "U+A765", "U+A766", "U+A767", "U+A768", "U+A769", "U+A76A", "U+A76B", "U+A76C",
    "U+A76D", "U+A76E", "U+A76F", "U+A771", "U+A772", "U+A773", "U+A774", "U+A775", "U+A776",
    "U+A777", "U+A778", "U+A779", "U+A77A", "U+A77B", "U+A77C", "U+A77D", "U+A77E", "U+A77F",
    "U+A780", "U+A781", "U+A782", "U+A783", "U+A784", "U+A785", "U+A786", "U+A787", "U+A78B",
    "U+A78C", "U+A78D", "U+A78E", "U+A790", "U+A791", "U+A792", "U+A793", "U+A794", "U+A795",
    "U+A796", "U+A797", "U+A798", "U+A799", "U+A79A", "U+A79B", "U+A79C", "U+A79D", "U+A79E",
    "U+A79F", "U+A7A0", "U+A7A1", "U+A7A2", "U+A7A3", "U+A7A4", "U+A7A5", "U+A7A6", "U+A7A7",
    "U+A7A8", "U+A7A9", "U+A7AA", "U+A7AB", "U+A7AC", "U+A7AD", "U+A7AE", "U+A7AF", "U+A7B0",
    "U+A7B1", "U+A7B2", "U+A7B3", "U+A7B4", "U+A7B5", "U+A7B6", "U+A7B7", "U+A7B8", "U+A7B9",
    "U+A7BA", "U+A7BB", "U+A7BC", "U+A7BD", "U+A7BE", "U+A7BF", "U+A7C0", "U+A7C1", "U+A7C2",
    "U+A7C3", "U+A7C4", "U+A7C5", "U+A7C6", "U+A7C7", "U+A7C8", "U+A7C9", "U+A7CA", "U+A7D0",
    "U+A7D1", "U+A7D3", "U+A7D5", "U+A7D6", "U+A7D7", "U+A7D8", "U+A7D9", "U+A7F5", "U+A7F6",
    "U+A7FA", "U+AB30", "U+AB31", "U+AB32", "U+AB33", "U+AB34", "U+AB35", "U+AB36", "U+AB37",
    "U+AB38", "U+AB39", "U+AB3A", "U+AB3B", "U+AB3C", "U+AB3D", "U+AB3E", "U+AB3F", "U+AB40",
    "U+AB41", "U+AB42", "U+AB43", "U+AB44", "U+AB45", "U+AB46", "U+AB47", "U+AB48", "U+AB49",
    "U+AB4A", "U+AB4B", "U+AB4C", "U+AB4D", "U+AB4E", "U+AB4F", "U+AB50", "U+AB51", "U+AB52",
    "U+AB53", "U+AB54", "U+AB55", "U+AB56", "U+AB57", "U+AB58", "U+AB59", "U+AB5A", "U+AB60",
    "U+AB61", "U+AB62", "U+AB63", "U+AB64", "U+AB65", "U+AB66", "U+AB67", "U+AB68", "U+AB70",
    "U+AB71", "U+AB72", "U+AB73", "U+AB74", "U+AB75", "U+AB76", "U+AB77", "U+AB78", "U+AB79",
    "U+AB7A", "U+AB7B", "U+AB7C", "U+AB7D", "U+AB7E", "U+AB7F", "U+AB80", "U+AB81", "U+AB82",
    "U+AB83", "U+AB84", "U+AB85", "U+AB86", "U+AB87", "U+AB88", "U+AB89", "U+AB8A", "U+AB8B",
    "U+AB8C", "U+AB8D", "U+AB8E", "U+AB8F", "U+AB90", "U+AB91", "U+AB92", "U+AB93", "U+AB94",
    "U+AB95", "U+AB96", "U+AB97", "U+AB98", "U+AB99", "U+AB9A", "U+AB9B", "U+AB9C", "U+AB9D",
    "U+AB9E", "U+AB9F", "U+ABA0", "U+ABA1", "U+ABA2", "U+ABA3", "U+ABA4", "U+ABA5", "U+ABA6",
    "U+ABA7", "U+ABA8", "U+ABA9", "U+ABAA", "U+ABAB", "U+ABAC", "U+ABAD", "U+ABAE", "U+ABAF",
    "U+ABB0", "U+ABB1", "U+ABB2", "U+ABB3", "U+ABB4", "U+ABB5", "U+ABB6", "U+ABB7", "U+ABB8",
    "U+ABB9", "U+ABBA", "U+ABBB", "U+ABBC", "U+ABBD", "U+ABBE", "U+ABBF", "U+FB00", "U+FB01",
    "U+FB02", "U+FB03", "U+FB04", "U+FB05", "U+FB06", "U+FB13", "U+FB14", "U+FB15", "U+FB16",
    "U+FB17", "U+FF21", "U+FF22", "U+FF23", "U+FF24", "U+FF25", "U+FF26", "U+FF27", "U+FF28",
    "U+FF29", "U+FF2A", "U+FF2B", "U+FF2C", "U+FF2D", "U+FF2E", "U+FF2F", "U+FF30", "U+FF31",
    "U+FF32", "U+FF33", "U+FF34", "U+FF35", "U+FF36", "U+FF37", "U+FF38", "U+FF39", "U+FF3A",
    "U+FF41", "U+FF42", "U+FF43", "U+FF44", "U+FF45", "U+FF46", "U+FF47", "U+FF48", "U+FF49",
    "U+FF4A", "U+FF4B", "U+FF4C", "U+FF4D", "U+FF4E", "U+FF4F", "U+FF50", "U+FF51", "U+FF52",
    "U+FF53", "U+FF54", "U+FF55", "U+FF56", "U+FF57", "U+FF58", "U+FF59", "U+FF5A", "U+10400",
    "U+10401", "U+10402", "U+10403", "U+10404", "U+10405", "U+10406", "U+10407", "U+10408",
    "U+10409", "U+1040A", "U+1040B", "U+1040C", "U+1040D", "U+1040E", "U+1040F", "U+10410",
    "U+10411", "U+10412", "U+10413", "U+10414", "U+10415", "U+10416", "U+10417", "U+10418",
    "U+10419", "U+1041A", "U+1041B", "U+1041C", "U+1041D", "U+1041E", "U+1041F", "U+10420",
    "U+10421", "U+10422", "U+10423", "U+10424", "U+10425", "U+10426", "U+10427", "U+10428",
    "U+10429", "U+1042A", "U+1042B", "U+1042C", "U+1042D", "U+1042E", "U+1042F", "U+10430",
    "U+10431", "U+10432", "U+10433", "U+10434", "U+10435", "U+10436", "U+10437", "U+10438",
    "U+10439", "U+1043A", "U+1043B", "U+1043C", "U+1043D", "U+1043E", "U+1043F", "U+10440",
    "U+10441", "U+10442", "U+10443", "U+10444", "U+10445", "U+10446", "U+10447", "U+10448",
    "U+10449", "U+1044A", "U+1044B", "U+1044C", "U+1044D", "U+1044E", "U+1044F", "U+104B0",
    "U+104B1", "U+104B2", "U+104B3", "U+104B4", "U+104B5", "U+104B6", "U+104B7", "U+104B8",
    "U+104B9", "U+104BA", "U+104BB", "U+104BC", "U+104BD", "U+104BE", "U+104BF", "U+104C0",
    "U+104C1", "U+104C2", "U+104C3", "U+104C4", "U+104C5", "U+104C6", "U+104C7", "U+104C8",
    "U+104C9", "U+104CA", "U+104CB", "U+104CC", "U+104CD", "U+104CE", "U+104CF", "U+104D0",
    "U+104D1", "U+104D2", "U+104D3", "U+104D8", "U+104D9", "U+104DA", "U+104DB", "U+104DC",
    "U+104DD", "U+104DE", "U+104DF", "U+104E0", "U+104E1", "U+104E2", "U+104E3", "U+104E4",
    "U+104E5", "U+104E6", "U+104E7", "U+104E8", "U+104E9", "U+104EA", "U+104EB", "U+104EC",
    "U+104ED", "U+104EE", "U+104EF", "U+104F0", "U+104F1", "U+104F2", "U+104F3", "U+104F4",
    "U+104F5", "U+104F6", "U+104F7", "U+104F8", "U+104F9", "U+104FA", "U+104FB", "U+10570",
    "U+10571", "U+10572", "U+10573", "U+10574", "U+10575", "U+10576", "U+10577", "U+10578",
    "U+10579", "U+1057A", "U+1057C", "U+1057D", "U+1057E", "U+1057F", "U+10580", "U+10581",
    "U+10582", "U+10583", "U+10584", "U+10585", "U+10586", "U+10587", "U+10588", "U+10589",
    "U+1058A", "U+1058C", "U+1058D", "U+1058E", "U+1058F", "U+10590", "U+10591", "U+10592",
    "U+10594", "U+10595", "U+10597", "U+10598", "U+10599", "U+1059A", "U+1059B", "U+1059C",
    "U+1059D", "U+1059E", "U+1059F", "U+105A0", "U+105A1", "U+105A3", "U+105A4", "U+105A5",
    "U+105A6", "U+105A7", "U+105A8", "U+105A9", "U+105AA", "U+105AB", "U+105AC", "U+105AD",
    "U+105AE", "U+105AF", "U+105B0", "U+105B1", "U+105B3", "U+105B4", "U+105B5", "U+105B6",
    "U+105B7", "U+105B8", "U+105B9", "U+105BB", "U+105BC", "U+10C80", "U+10C81", "U+10C82",
    "U+10C83", "U+10C84", "U+10C85", "U+10C86", "U+10C87", "U+10C88", "U+10C89", "U+10C8A",
    "U+10C8B", "U+10C8C", "U+10C8D", "U+10C8E", "U+10C8F", "U+10C90", "U+10C91", "U+10C92",
    "U+10C93", "U+10C94", "U+10C95", "U+10C96", "U+10C97", "U+10C98", "U+10C99", "U+10C9A",
    "U+10C9B", "U+10C9C", "U+10C9D", "U+10C9E", "U+10C9F", "U+10CA0", "U+10CA1", "U+10CA2",
    "U+10CA3", "U+10CA4", "U+10CA5", "U+10CA6", "U+10CA7", "U+10CA8", "U+10CA9", "U+10CAA",
    "U+10CAB", "U+10CAC", "U+10CAD", "U+10CAE", "U+10CAF", "U+10CB0", "U+10CB1", "U+10CB2",
    "U+10CC0", "U+10CC1", "U+10CC2", "U+10CC3", "U+10CC4", "U+10CC5", "U+10CC6", "U+10CC7",
    "U+10CC8", "U+10CC9", "U+10CCA", "U+10CCB", "U+10CCC", "U+10CCD", "U+10CCE", "U+10CCF",
    "U+10CD0", "U+10CD1", "U+10CD2", "U+10CD3", "U+10CD4", "U+10CD5", "U+10CD6", "U+10CD7",
    "U+10CD8", "U+10CD9", "U+10CDA", "U+10CDB", "U+10CDC", "U+10CDD", "U+10CDE", "U+10CDF",
    "U+10CE0", "U+10CE1", "U+10CE2", "U+10CE3", "U+10CE4", "U+10CE5", "U+10CE6", "U+10CE7",
    "U+10CE8", "U+10CE9", "U+10CEA", "U+10CEB", "U+10CEC", "U+10CED", "U+10CEE", "U+10CEF",
    "U+10CF0", "U+10CF1", "U+10CF2", "U+118A0", "U+118A1", "U+118A2", "U+118A3", "U+118A4",
    "U+118A5", "U+118A6", "U+118A7", "U+118A8", "U+118A9", "U+118AA", "U+118AB", "U+118AC",
    "U+118AD", "U+118AE", "U+118AF", "U+118B0", "U+118B1", "U+118B2", "U+118B3", "U+118B4",
    "U+118B5", "U+118B6", "U+118B7", "U+118B8", "U+118B9", "U+118BA", "U+118BB", "U+118BC",
    "U+118BD", "U+118BE", "U+118BF", "U+118C0", "U+118C1", "U+118C2", "U+118C3", "U+118C4",
    "U+118C5", "U+118C6", "U+118C7", "U+118C8", "U+118C9", "U+118CA", "U+118CB", "U+118CC",
    "U+118CD", "U+118CE", "U+118CF", "U+118D0", "U+118D1", "U+118D2", "U+118D3", "U+118D4",
    "U+118D5", "U+118D6", "U+118D7", "U+118D8", "U+118D9", "U+118DA", "U+118DB", "U+118DC",
    "U+118DD", "U+118DE", "U+118DF", "U+16E40", "U+16E41", "U+16E42", "U+16E43", "U+16E44",
    "U+16E45", "U+16E46", "U+16E47", "U+16E48", "U+16E49", "U+16E4A", "U+16E4B", "U+16E4C",
    "U+16E4D", "U+16E4E", "U+16E4F", "U+16E50", "U+16E51", "U+16E52", "U+16E53", "U+16E54",
    "U+16E55", "U+16E56", "U+16E57", "U+16E58", "U+16E59", "U+16E5A", "U+16E5B", "U+16E5C",
    "U+16E5D", "U+16E5E", "U+16E5F", "U+16E60", "U+16E61", "U+16E62", "U+16E63", "U+16E64",
    "U+16E65", "U+16E66", "U+16E67", "U+16E68", "U+16E69", "U+16E6A", "U+16E6B", "U+16E6C",
    "U+16E6D", "U+16E6E", "U+16E6F", "U+16E70", "U+16E71", "U+16E72", "U+16E73", "U+16E74",
    "U+16E75", "U+16E76", "U+16E77", "U+16E78", "U+16E79", "U+16E7A", "U+16E7B", "U+16E7C",
    "U+16E7D", "U+16E7E", "U+16E7F", "U+1D400", "U+1D401", "U+1D402", "U+1D403", "U+1D404",
    "U+1D405", "U+1D406", "U+1D407", "U+1D408", "U+1D409", "U+1D40A", "U+1D40B", "U+1D40C",
    "U+1D40D", "U+1D40E", "U+1D40F", "U+1D410", "U+1D411", "U+1D412", "U+1D413", "U+1D414",
    "U+1D415", "U+1D416", "U+1D417", "U+1D418", "U+1D419", "U+1D41A", "U+1D41B", "U+1D41C",
    "U+1D41D", "U+1D41E", "U+1D41F", "U+1D420", "U+1D421", "U+1D422", "U+1D423", "U+1D424",
    "U+1D425", "U+1D426", "U+1D427", "U+1D428", "U+1D429", "U+1D42A", "U+1D42B", "U+1D42C",
    "U+1D42D", "U+1D42E", "U+1D42F", "U+1D430", "U+1D431", "U+1D432", "U+1D433", "U+1D434",
    "U+1D435", "U+1D436", "U+1D437", "U+1D438", "U+1D439", "U+1D43A", "U+1D43B", "U+1D43C",
    "U+1D43D", "U+1D43E", "U+1D43F", "U+1D440", "U+1D441", "U+1D442", "U+1D443", "U+1D444",
    "U+1D445", "U+1D446", "U+1D447", "U+1D448", "U+1D449", "U+1D44A", "U+1D44B", "U+1D44C",
    "U+1D44D", "U+1D44E", "U+1D44F", "U+1D450", "U+1D451", "U+1D452", "U+1D453", "U+1D454",
    "U+1D456", "U+1D457", "U+1D458", "U+1D459", "U+1D45A", "U+1D45B", "U+1D45C", "U+1D45D",
    "U+1D45E", "U+1D45F", "U+1D460", "U+1D461", "U+1D462", "U+1D463", "U+1D464", "U+1D465",
    "U+1D466", "U+1D467", "U+1D468", "U+1D469", "U+1D46A", "U+1D46B", "U+1D46C", "U+1D46D",
    "U+1D46E", "U+1D46F", "U+1D470", "U+1D471", "U+1D472", "U+1D473", "U+1D474", "U+1D475",
    "U+1D476", "U+1D477", "U+1D478", "U+1D479", "U+1D47A", "U+1D47B", "U+1D47C", "U+1D47D",
    "U+1D47E", "U+1D47F", "U+1D480", "U+1D481", "U+1D482", "U+1D483", "U+1D484", "U+1D485",
    "U+1D486", "U+1D487", "U+1D488", "U+1D489", "U+1D48A", "U+1D48B", "U+1D48C", "U+1D48D",
    "U+1D48E", "U+1D48F", "U+1D490", "U+1D491", "U+1D492", "U+1D493", "U+1D494", "U+1D495",
    "U+1D496", "U+1D497", "U+1D498", "U+1D499", "U+1D49A", "U+1D49B", "U+1D49C", "U+1D49E",
    "U+1D49F", "U+1D4A2", "U+1D4A5", "U+1D4A6", "U+1D4A9", "U+1D4AA", "U+1D4AB", "U+1D4AC",
    "U+1D4AE", "U+1D4AF", "U+1D4B0", "U+1D4B1", "U+1D4B2", "U+1D4B3", "U+1D4B4", "U+1D4B5",
    "U+1D4B6", "U+1D4B7", "U+1D4B8", "U+1D4B9", "U+1D4BB", "U+1D4BD", "U+1D4BE", "U+1D4BF",
    "U+1D4C0", "U+1D4C1", "U+1D4C2", "U+1D4C3", "U+1D4C5", "U+1D4C6", "U+1D4C7", "U+1D4C8",
    "U+1D4C9", "U+1D4CA", "U+1D4CB", "U+1D4CC", "U+1D4CD", "U+1D4CE", "U+1D4CF", "U+1D4D0",
    "U+1D4D1", "U+1D4D2", "U+1D4D3", "U+1D4D4", "U+1D4D5", "U+1D4D6", "U+1D4D7", "U+1D4D8",
    "U+1D4D9", "U+1D4DA", "U+1D4DB", "U+1D4DC", "U+1D4DD", "U+1D4DE", "U+1D4DF", "U+1D4E0",
    "U+1D4E1", "U+1D4E2", "U+1D4E3", "U+1D4E4", "U+1D4E5", "U+1D4E6", "U+1D4E7", "U+1D4E8",
    "U+1D4E9", "U+1D4EA", "U+1D4EB", "U+1D4EC", "U+1D4ED", "U+1D4EE", "U+1D4EF", "U+1D4F0",
    "U+1D4F1", "U+1D4F2", "U+1D4F3", "U+1D4F4", "U+1D4F5", "U+1D4F6", "U+1D4F7", "U+1D4F8",
    "U+1D4F9", "U+1D4FA", "U+1D4FB", "U+1D4FC", "U+1D4FD", "U+1D4FE", "U+1D4FF", "U+1D500",
    "U+1D501", "U+1D502", "U+1D503", "U+1D504", "U+1D505", "U+1D507", "U+1D508", "U+1D509",
    "U+1D50A", "U+1D50D", "U+1D50E", "U+1D50F", "U+1D510", "U+1D511", "U+1D512", "U+1D513",
    "U+1D514", "U+1D516", "U+1D517", "U+1D518", "U+1D519", "U+1D51A", "U+1D51B", "U+1D51C",
    "U+1D51E", "U+1D51F", "U+1D520", "U+1D521", "U+1D522", "U+1D523", "U+1D524", "U+1D525",
    "U+1D526", "U+1D527", "U+1D528", "U+1D529", "U+1D52A", "U+1D52B", "U+1D52C", "U+1D52D",
    "U+1D52E", "U+1D52F", "U+1D530", "U+1D531", "U+1D532", "U+1D533", "U+1D534", "U+1D535",
    "U+1D536", "U+1D537", "U+1D538", "U+1D539", "U+1D53B", "U+1D53C", "U+1D53D", "U+1D53E",
    "U+1D540", "U+1D541", "U+1D542", "U+1D543", "U+1D544", "U+1D546", "U+1D54A", "U+1D54B",
    "U+1D54C", "U+1D54D", "U+1D54E", "U+1D54F", "U+1D550", "U+1D552", "U+1D553", "U+1D554",
    "U+1D555", "U+1D556", "U+1D557", "U+1D558", "U+1D559", "U+1D55A", "U+1D55B", "U+1D55C",
    "U+1D55D", "U+1D55E", "U+1D55F", "U+1D560", "U+1D561", "U+1D562", "U+1D563", "U+1D564",
    "U+1D565", "U+1D566", "U+1D567", "U+1D568", "U+1D569", "U+1D56A", "U+1D56B", "U+1D56C",
    "U+1D56D", "U+1D56E", "U+1D56F", "U+1D570", "U+1D571", "U+1D572", "U+1D573", "U+1D574",
    "U+1D575", "U+1D576", "U+1D577", "U+1D578", "U+1D579", "U+1D57A", "U+1D57B", "U+1D57C",
    "U+1D57D", "U+1D57E", "U+1D57F", "U+1D580", "U+1D581", "U+1D582", "U+1D583", "U+1D584",
    "U+1D585", "U+1D586", "U+1D587", "U+1D588", "U+1D589", "U+1D58A", "U+1D58B", "U+1D58C",
    "U+1D58D", "U+1D58E", "U+1D58F", "U+1D590", "U+1D591", "U+1D592", "U+1D593", "U+1D594",
    "U+1D595", "U+1D596", "U+1D597", "U+1D598", "U+1D599", "U+1D59A", "U+1D59B", "U+1D59C",
    "U+1D59D", "U+1D59E", "U+1D59F", "U+1D5A0", "U+1D5A1", "U+1D5A2", "U+1D5A3", "U+1D5A4",
    "U+1D5A5", "U+1D5A6", "U+1D5A7", "U+1D5A8", "U+1D5A9", "U+1D5AA", "U+1D5AB", "U+1D5AC",
    "U+1D5AD", "U+1D5AE", "U+1D5AF", "U+1D5B0", "U+1D5B1", "U+1D5B2", "U+1D5B3", "U+1D5B4",
    "U+1D5B5", "U+1D5B6", "U+1D5B7", "U+1D5B8", "U+1D5B9", "U+1D5BA", "U+1D5BB", "U+1D5BC",
    "U+1D5BD", "U+1D5BE", "U+1D5BF", "U+1D5C0", "U+1D5C1", "U+1D5C2", "U+1D5C3", "U+1D5C4",
    "U+1D5C5", "U+1D5C6", "U+1D5C7", "U+1D5C8", "U+1D5C9", "U+1D5CA", "U+1D5CB", "U+1D5CC",
    "U+1D5CD", "U+1D5CE", "U+1D5CF", "U+1D5D0", "U+1D5D1", "U+1D5D2", "U+1D5D3", "U+1D5D4",
    "U+1D5D5", "U+1D5D6", "U+1D5D7", "U+1D5D8", "U+1D5D9", "U+1D5DA", "U+1D5DB", "U+1D5DC",
    "U+1D5DD", "U+1D5DE", "U+1D5DF", "U+1D5E0", "U+1D5E1", "U+1D5E2", "U+1D5E3", "U+1D5E4",
    "U+1D5E5", "U+1D5E6", "U+1D5E7", "U+1D5E8", "U+1D5E9", "U+1D5EA", "U+1D5EB", "U+1D5EC",
    "U+1D5ED", "U+1D5EE", "U+1D5EF", "U+1D5F0", "U+1D5F1", "U+1D5F2", "U+1D5F3", "U+1D5F4",
    "U+1D5F5", "U+1D5F6", "U+1D5F7", "U+1D5F8", "U+1D5F9", "U+1D5FA", "U+1D5FB", "U+1D5FC",
    "U+1D5FD", "U+1D5FE", "U+1D5FF", "U+1D600", "U+1D601", "U+1D602", "U+1D603", "U+1D604",
    "U+1D605", "U+1D606", "U+1D607", "U+1D608", "U+1D609", "U+1D60A", "U+1D60B", "U+1D60C",
    "U+1D60D", "U+1D60E", "U+1D60F", "U+1D610", "U+1D611", "U+1D612", "U+1D613", "U+1D614",
    "U+1D615", "U+1D616", "U+1D617", "U+1D618", "U+1D619", "U+1D61A", "U+1D61B", "U+1D61C",
    "U+1D61D", "U+1D61E", "U+1D61F", "U+1D620", "U+1D621", "U+1D622", "U+1D623", "U+1D624",
    "U+1D625", "U+1D626", "U+1D627", "U+1D628", "U+1D629", "U+1D62A", "U+1D62B", "U+1D62C",
    "U+1D62D", "U+1D62E", "U+1D62F", "U+1D630", "U+1D631", "U+1D632", "U+1D633", "U+1D634",
    "U+1D635", "U+1D636", "U+1D637", "U+1D638", "U+1D639", "U+1D63A", "U+1D63B", "U+1D63C",
    "U+1D63D", "U+1D63E", "U+1D63F", "U+1D640", "U+1D641", "U+1D642", "U+1D643", "U+1D644",
    "U+1D645", "U+1D646", "U+1D647", "U+1D648", "U+1D649", "U+1D64A", "U+1D64B", "U+1D64C",
    "U+1D64D", "U+1D64E", "U+1D64F", "U+1D650", "U+1D651", "U+1D652", "U+1D653", "U+1D654",
    "U+1D655", "U+1D656", "U+1D657", "U+1D658", "U+1D659", "U+1D65A", "U+1D65B", "U+1D65C",
    "U+1D65D", "U+1D65E", "U+1D65F", "U+1D660", "U+1D661", "U+1D662", "U+1D663", "U+1D664",
    "U+1D665", "U+1D666", "U+1D667", "U+1D668", "U+1D669", "U+1D66A", "U+1D66B", "U+1D66C",
    "U+1D66D", "U+1D66E", "U+1D66F", "U+1D670", "U+1D671", "U+1D672", "U+1D673", "U+1D674",
    "U+1D675", "U+1D676", "U+1D677", "U+1D678", "U+1D679", "U+1D67A", "U+1D67B", "U+1D67C",
    "U+1D67D", "U+1D67E", "U+1D67F", "U+1D680", "U+1D681", "U+1D682", "U+1D683", "U+1D684",
    "U+1D685", "U+1D686", "U+1D687", "U+1D688", "U+1D689", "U+1D68A", "U+1D68B", "U+1D68C",
    "U+1D68D", "U+1D68E", "U+1D68F", "U+1D690", "U+1D691", "U+1D692", "U+1D693", "U+1D694",
    "U+1D695", "U+1D696", "U+1D697", "U+1D698", "U+1D699", "U+1D69A", "U+1D69B", "U+1D69C",
    "U+1D69D", "U+1D69E", "U+1D69F", "U+1D6A0", "U+1D6A1", "U+1D6A2", "U+1D6A3", "U+1D6A4",
    "U+1D6A5", "U+1D6A8", "U+1D6A9", "U+1D6AA", "U+1D6AB", "U+1D6AC", "U+1D6AD", "U+1D6AE",
    "U+1D6AF", "U+1D6B0", "U+1D6B1", "U+1D6B2", "U+1D6B3", "U+1D6B4", "U+1D6B5", "U+1D6B6",
    "U+1D6B7", "U+1D6B8", "U+1D6B9", "U+1D6BA", "U+1D6BB", "U+1D6BC", "U+1D6BD", "U+1D6BE",
    "U+1D6BF", "U+1D6C0", "U+1D6C2", "U+1D6C3", "U+1D6C4", "U+1D6C5", "U+1D6C6", "U+1D6C7",
    "U+1D6C8", "U+1D6C9", "U+1D6CA", "U+1D6CB", "U+1D6CC", "U+1D6CD", "U+1D6CE", "U+1D6CF",
    "U+1D6D0", "U+1D6D1", "U+1D6D2", "U+1D6D3", "U+1D6D4", "U+1D6D5", "U+1D6D6", "U+1D6D7",
    "U+1D6D8", "U+1D6D9", "U+1D6DA", "U+1D6DC", "U+1D6DD", "U+1D6DE", "U+1D6DF", "U+1D6E0",
    "U+1D6E1", "U+1D6E2", "U+1D6E3", "U+1D6E4", "U+1D6E5", "U+1D6E6", "U+1D6E7", "U+1D6E8",
    "U+1D6E9", "U+1D6EA", "U+1D6EB", "U+1D6EC", "U+1D6ED", "U+1D6EE", "U+1D6EF", "U+1D6F0",
    "U+1D6F1", "U+1D6F2", "U+1D6F3", "U+1D6F4", "U+1D6F5", "U+1D6F6", "U+1D6F7", "U+1D6F8",
    "U+1D6F9", "U+1D6FA", "U+1D6FC", "U+1D6FD", "U+1D6FE", "U+1D6FF", "U+1D700", "U+1D701",
    "U+1D702", "U+1D703", "U+1D704", "U+1D705", "U+1D706", "U+1D707", "U+1D708", "U+1D709",
    "U+1D70A", "U+1D70B", "U+1D70C", "U+1D70D", "U+1D70E", "U+1D70F", "U+1D710", "U+1D711",
    "U+1D712", "U+1D713", "U+1D714", "U+1D716", "U+1D717", "U+1D718", "U+1D719", "U+1D71A",
    "U+1D71B", "U+1D71C", "U+1D71D", "U+1D71E", "U+1D71F", "U+1D720", "U+1D721", "U+1D722",
    "U+1D723", "U+1D724", "U+1D725", "U+1D726", "U+1D727", "U+1D728", "U+1D729", "U+1D72A",
    "U+1D72B", "U+1D72C", "U+1D72D", "U+1D72E", "U+1D72F", "U+1D730", "U+1D731", "U+1D732",
    "U+1D733", "U+1D734", "U+1D736", "U+1D737", "U+1D738", "U+1D739", "U+1D73A", "U+1D73B",
    "U+1D73C", "U+1D73D", "U+1D73E", "U+1D73F", "U+1D740", "U+1D741", "U+1D742", "U+1D743",
    "U+1D744", "U+1D745", "U+1D746", "U+1D747", "U+1D748", "U+1D749", "U+1D74A", "U+1D74B",
    "U+1D74C", "U+1D74D", "U+1D74E", "U+1D750", "U+1D751", "U+1D752", "U+1D753", "U+1D754",
    "U+1D755", "U+1D756", "U+1D757", "U+1D758", "U+1D759", "U+1D75A", "U+1D75B", "U+1D75C",
    "U+1D75D", "U+1D75E", "U+1D75F", "U+1D760", "U+1D761", "U+1D762", "U+1D763", "U+1D764",
    "U+1D765", "U+1D766", "U+1D767", "U+1D768", "U+1D769", "U+1D76A", "U+1D76B", "U+1D76C",
    "U+1D76D", "U+1D76E", "U+1D770", "U+1D771", "U+1D772", "U+1D773", "U+1D774", "U+1D775",
    "U+1D776", "U+1D777", "U+1D778", "U+1D779", "U+1D77A", "U+1D77B", "U+1D77C", "U+1D77D",
    "U+1D77E", "U+1D77F", "U+1D780", "U+1D781", "U+1D782", "U+1D783", "U+1D784", "U+1D785",
    "U+1D786", "U+1D787", "U+1D788", "U+1D78A", "U+1D78B", "U+1D78C", "U+1D78D", "U+1D78E",
    "U+1D78F", "U+1D790", "U+1D791", "U+1D792", "U+1D793", "U+1D794", "U+1D795", "U+1D796",
    "U+1D797", "U+1D798", "U+1D799", "U+1D79A", "U+1D79B", "U+1D79C", "U+1D79D", "U+1D79E",
    "U+1D79F", "U+1D7A0", "U+1D7A1", "U+1D7A2", "U+1D7A3", "U+1D7A4", "U+1D7A5", "U+1D7A6",
    "U+1D7A7", "U+1D7A8", "U+1D7AA", "U+1D7AB", "U+1D7AC", "U+1D7AD", "U+1D7AE", "U+1D7AF",
    "U+1D7B0", "U+1D7B1", "U+1D7B2", "U+1D7B3", "U+1D7B4", "U+1D7B5", "U+1D7B6", "U+1D7B7",
    "U+1D7B8", "U+1D7B9", "U+1D7BA", "U+1D7BB", "U+1D7BC", "U+1D7BD", "U+1D7BE", "U+1D7BF",
    "U+1D7C0", "U+1D7C1", "U+1D7C2", "U+1D7C4", "U+1D7C5", "U+1D7C6", "U+1D7C7", "U+1D7C8",
    "U+1D7C9", "U+1D7CA", "U+1D7CB", "U+1DF00", "U+1DF01", "U+1DF02", "U+1DF03", "U+1DF04",
    "U+1DF05", "U+1DF06", "U+1DF07", "U+1DF08", "U+1DF09", "U+1DF0B", "U+1DF0C", "U+1DF0D",
    "U+1DF0E", "U+1DF0F", "U+1DF10", "U+1DF11", "U+1DF12", "U+1DF13", "U+1DF14", "U+1DF15",
    "U+1DF16", "U+1DF17", "U+1DF18", "U+1DF19", "U+1DF1A", "U+1DF1B", "U+1DF1C", "U+1DF1D",
    "U+1DF1E", "U+1E900", "U+1E901", "U+1E902", "U+1E903", "U+1E904", "U+1E905", "U+1E906",
    "U+1E907", "U+1E908", "U+1E909", "U+1E90A", "U+1E90B", "U+1E90C", "U+1E90D", "U+1E90E",
    "U+1E90F", "U+1E910", "U+1E911", "U+1E912", "U+1E913", "U+1E914", "U+1E915", "U+1E916",
    "U+1E917", "U+1E918", "U+1E919", "U+1E91A", "U+1E91B", "U+1E91C", "U+1E91D", "U+1E91E",
    "U+1E91F", "U+1E920", "U+1E921", "U+1E922", "U+1E923", "U+1E924", "U+1E925", "U+1E926",
    "U+1E927", "U+1E928", "U+1E929", "U+1E92A", "U+1E92B", "U+1E92C", "U+1E92D", "U+1E92E",
    "U+1E92F", "U+1E930", "U+1E931", "U+1E932", "U+1E933", "U+1E934", "U+1E935", "U+1E936",
    "U+1E937", "U+1E938", "U+1E939", "U+1E93A", "U+1E93B", "U+1E93C", "U+1E93D", "U+1E93E",
    "U+1E93F", "U+1E940", "U+1E941", "U+1E942", "U+1E943", "U+1F130", "U+1F131", "U+1F132",
    "U+1F133", "U+1F134", "U+1F135", "U+1F136", "U+1F137", "U+1F138", "U+1F139", "U+1F13A",
    "U+1F13B", "U+1F13C", "U+1F13D", "U+1F13E", "U+1F13F", "U+1F140", "U+1F141", "U+1F142",
    "U+1F143", "U+1F144", "U+1F145", "U+1F146", "U+1F147", "U+1F148", "U+1F149", "U+1F150",
    "U+1F151", "U+1F152", "U+1F153", "U+1F154", "U+1F155", "U+1F156", "U+1F157", "U+1F158",
    "U+1F159", "U+1F15A", "U+1F15B", "U+1F15C", "U+1F15D", "U+1F15E", "U+1F15F", "U+1F160",
    "U+1F161", "U+1F162", "U+1F163", "U+1F164", "U+1F165", "U+1F166", "U+1F167", "U+1F168",
    "U+1F169", "U+1F170", "U+1F171", "U+1F172", "U+1F173", "U+1F174", "U+1F175", "U+1F176",
    "U+1F177", "U+1F178", "U+1F179", "U+1F17A", "U+1F17B", "U+1F17C", "U+1F17D", "U+1F17E",
    "U+1F17F", "U+1F180", "U+1F181", "U+1F182", "U+1F183", "U+1F184", "U+1F185", "U+1F186",
    "U+1F187", "U+1F188", "U+1F189" }
\* The characters str.lower() skips when it looks for the end of a word.
CaseIgnorable == {
    "'", ".", ":", "^", "U+0060", "U+00A8", "U+00AD", "U+00AF", "U+00B4", "U+00B7", "U+00B8",
    "U+02B0", "U+02B1", "U+02B2", "U+02B3", "U+02B4", "U+02B5", "U+02B6", "U+02B7", "U+02B8",
    "U+02B9", "U+02BA", "U+02BB", "U+02BC", "U+02BD", "U+02BE", "U+02BF", "U+02C0", "U+02C1",
    "U+02C2", "U+02C3", "U+02C4", "U+02C5", "U+02C6", "U+02C7", "U+02C8", "U+02C9", "U+02CA",
    "U+02CB", "U+02CC", "U+02CD", "U+02CE", "U+02CF", "U+02D0", "U+02D1", "U+02D2", "U+02D3",
    "U+02D4", "U+02D5", "U+02D6", "U+02D7", "U+02D8", "U+02D9", "U+02DA", "U+02DB", "U+02DC",
    "U+02DD", "U+02DE", "U+02DF", "U+02E0", "U+02E1", "U+02E2", "U+02E3", "U+02E4", "U+02E5",
    "U+02E6", "U+02E7", "U+02E8", "U+02E9", "U+02EA", "U+02EB", "U+02EC", "U+02ED", "U+02EE",
    "U+02EF", "U+02F0", "U+02F1", "U+02F2", "U+02F3", "U+02F4", "U+02F5", "U+02F6", "U+02F7",
    "U+02F8", "U+02F9", "U+02FA", "U+02FB", "U+02FC", "U+02FD", "U+02FE", "U+02FF", "U+0300",
    "U+0301", "U+0302", "U+0303", "U+0304", "U+0305", "U+0306", "U+0307", "U+0308", "U+0309",
    "U+030A", "U+030B", "U+030C", "U+030D", "U+030E", "U+030F", "U+0310", "U+0311", "U+0312",
    "U+0313", "U+0314", "U+0315", "U+0316", "U+0317", "U+0318", "U+0319", "U+031A", "U+031B",
    "U+031C", "U+031D", "U+031E", "U+031F", "U+0320", "U+0321", "U+0322", "U+0323", "U+0324",
    "U+0325", "U+0326", "U+0327", "U+0328", "U+0329", "U+032A", "U+032B", "U+032C", "U+032D",
    "U+032E", "U+032F", "U+0330", "U+0331", "U+0332", "U+0333", "U+0334", "U+0335", "U+0336",
    "U+0337", "U+0338", "U+0339", "U+033A", "U+033B", "U+033C", "U+033D", "U+033E", "U+033F",
    "U+0340", "U+0341", "U+0342", "U+0343", "U+0344", "U+0345", "U+0346", "U+0347", "U+0348",
    "U+0349", "U+034A", "U+034B", "U+034C", "U+034D", "U+034E", "U+034F", "U+0350", "U+0351",
    "U+0352", "U+0353", "U+0354", "U+0355", "U+0356", "U+0357", "U+0358", "U+0359", "U+035A",
    "U+035B", "U+035C", "U+035D", "U+035E", "U+035F", "U+0360", "U+0361", "U+0362", "U+0363",
    "U+0364", "U+0365", "U+0366", "U+0367", "U+0368", "U+0369", "U+036A", "U+036B", "U+036C",
    "U+036D", "U+036E", "U+036F", "U+0374", "U+0375", "U+037A", "U+0384", "U+0385", "U+0387",
    "U+0483", "U+0484", "U+0485", "U+0486", "U+0487", "U+0488", "U+0489", "U+0559", "U+055F",
    "U+0591", "U+0592", "U+0593", "U+0594", "U+0595", "U+0596", "U+0597", "U+0598", "U+0599",
    "U+059A", "U+059B", "U+059C", "U+059D", "U+059E", "U+059F", "U+05A0", "U+05A1", "U+05A2",
    "U+05A3", "U+05A4", "U+05A5", "U+05A6", "U+05A7", "U+05A8", "U+05A9", "U+05AA", "U+05AB",
    "U+05AC", "U+05AD", "U+05AE", "U+05AF", "U+05B0", "U+05B1", "U+05B2", "U+05B3", "U+05B4",
    "U+05B5", "U+05B6", "U+05B7", "U+05B8", "U+05B9", "U+05BA", "U+05BB", "U+05BC", "U+05BD",
    "U+05BF", "U+05C1", "U+05C2", "U+05C4", "U+05C5", "U+05C7", "U+05F4", "U+0600", "U+0601",
    "U+0602", "U+0603", "U+0604", "U+0605", "U+0610", "U+0611", "U+0612", "U+0613", "U+0614",
    "U+0615", "U+0616", "U+0617", "U+0618", "U+0619", "U+061A", "U+061C", "U+0640", "U+064B",
    "U+064C", "U+064D", "U+064E", "U+064F", "U+0650", "U+0651", "U+0652", "U+0653", "U+0654",
    "U+0655", "U+0656", "U+0657", "U+0658", "U+0659", "U+065A", "U+065B", "U+065C", "U+065D",
    "U+065E", "U+065F", "U+0670", "U+06D6", "U+06D7", "U+06D8", "U+06D9", "U+06DA", "U+06DB",
    "U+06DC", "U+06DD", "U+06DF", "U+06E0", "U+06E1", "U+06E2", "U+06E3", "U+06E4", "U+06E5",
    "U+06E6", "U+06E7", "U+06E8", "U+06EA", "U+06EB", "U+06EC", "U+06ED", "U+070F", "U+0711",
    "U+0730", "U+0731", "U+0732", "U+0733", "U+0734", "U+0735", "U+0736", "U+0737", "U+0738",
    "U+0739", "U+073A", "U+073B", "U+073C", "U+073D", "U+073E", "U+073F", "U+0740", "U+0741",
    "U+0742", "U+0743", "U+0744", "U+0745", "U+0746", "U+0747", "U+0748", "U+0749", "U+074A",
    "U+07A6", "U+07A7", "U+07A8", "U+07A9", "U+07AA", "U+07AB", "U+07AC", "U+07AD", "U+07AE",
    "U+07AF", "U+07B0", "U+07EB", "U+07EC", "U+07ED", "U+07EE", "U+07EF", "U+07F0", "U+07F1",
    "U+07F2", "U+07F3", "U+07F4", "U+07F5", "U+07FA", "U+07FD", "U+0816", "U+0817", "U+0818",
    "U+0819", "U+081A", "U+081B", "U+081C", "U+081D", "U+081E", "U+081F", "U+0820", "U+0821",
    "U+0822", "U+0823", "U+0824", "U+0825", "U+0826", "U+0827", "U+0828", "U+0829", "U+082A",
    "U+082B", "U+082C", "U+082D", "U+0859", "U+085A", "U+085B", "U+0888", "U+0890", "U+0891",
    "U+0898", "U+0899", "U+089A", "U+089B", "U+089C", "U+089D", "U+089E", "U+089F", "U+08C9",
    "U+08CA", "U+08CB", "U+08CC", "U+08CD", "U+08CE", "U+08CF", "U+08D0", "U+08D1", "U+08D2",
    "U+08D3", "U+08D4", "U+08D5", "U+08D6", "U+08D7", "U+08D8", "U+08D9", "U+08DA", "U+08DB",
    "U+08DC", "U+08DD", "U+08DE", "U+08DF", "U+08E0", "U+08E1", "U+08E2", "U+08E3", "U+08E4",
    "U+08E5", "U+08E6", "U+08E7", "U+08E8", "U+08E9", "U+08EA", "U+08EB", "U+08EC", "U+08ED",
    "U+08EE", "U+08EF", "U+08F0", "U+08F1", "U+08F2", "U+08F3", "U+08F4", "U+08F5", "U+08F6",
    "U+08F7", "U+08F8", "U+08F9", "U+08FA", "U+08FB", "U+08FC", "U+08FD", "U+08FE", "U+08FF",
    "U+0900", "U+0901", "U+0902", "U+093A", "U+093C", "U+0941", "U+0942", "U+0943", "U+0944",
    "U+0945", "U+0946", "U+0947", "U+0948", "U+094D", "U+0951", "U+0952", "U+0953", "U+0954",
    "U+0955", "U+0956", "U+0957", "U+0962", "U+0963", "U+0971", "U+0981", "U+09BC", "U+09C1",
    "U+09C2", "U+09C3", "U+09C4", "U+09CD", "U+09E2", "U+09E3", "U+09FE", "U+0A01", "U+0A02",
    "U+0A3C", "U+0A41", "U+0A42", "U+0A47", "U+0A48", "U+0A4B", "U+0A4C", "U+0A4D", "U+0A51",
    "U+0A70", "U+0A71", "U+0A75", "U+0A81", "U+0A82", "U+0ABC", "U+0AC1", "U+0AC2", "U+0AC3",
    "U+0AC4", "U+0AC5", "U+0AC7", "U+0AC8", "U+0ACD", "U+0AE2", "U+0AE3", "U+0AFA", "U+0AFB",
    "U+0AFC", "U+0AFD", "U+0AFE", "U+0AFF", "U+0B01", "U+0B3C", "U+0B3F", "U+0B41", "U+0B42",
    "U+0B43", "U+0B44", "U+0B4D", "U+0B55", "U+0B56", "U+0B62", "U+0B63", "U+0B82", "U+0BC0",
    "U+0BCD", "U+0C00", "U+0C04", "U+0C3C", "U+0C3E", "U+0C3F", "U+0C40", "U+0C46", "U+0C47",
    "U+0C48", "U+0C4A", "U+0C4B", "U+0C4C", "U+0C4D", "U+0C55", "U+0C56", "U+0C62", "U+0C63",
    "U+0C81", "U+0CBC", "U+0CBF", "U+0CC6", "U+0CCC", "U+0CCD", "U+0CE2", "U+0CE3", "U+0D00",
    "U+0D01", "U+0D3B", "U+0D3C", "U+0D41", "U+0D42", "U+0D43", "U+0D44", "U+0D4D", "U+0D62",
    "U+0D63", "U+0D81", "U+0DCA", "U+0DD2", "U+0DD3", "U+0DD4", "U+0DD6", "U+0E31", "U+0E34",
    "U+0E35", "U+0E36", "U+0E37", "U+0E38", "U+0E39", "U+0E3A", "U+0E46", "U+0E47", "U+0E48",
    "U+0E49", "U+0E4A", "U+0E4B", "U+0E4C", "U+0E4D", "U+0E4E", "U+0EB1", "U+0EB4", "U+0EB5",
    "U+0EB6", "U+0EB7", "U+0EB8", "U+0EB9", "U+0EBA", "U+0EBB", "U+0EBC", "U+0EC6", "U+0EC8",
    "U+0EC9", "U+0ECA", "U+0ECB", "U+0ECC", "U+0ECD", "U+0F18", "U+0F19", "U+0F35", "U+0F37",
    "U+0F39", "U+0F71", "U+0F72", "U+0F73", "U+0F74", "U+0F75", "U+0F76", "U+0F77", "U+0F78",
    "U+0F79", "U+0F7A", "U+0F7B", "U+0F7C", "U+0F7D", "U+0F7E", "U+0F80", "U+0F81", "U+0F82",
    "U+0F83", "U+0F84", "U+0F86", "U+0F87", "U+0F8D", "U+0F8E", "U+0F8F", "U+0F90", "U+0F91",
    "U+0F92", "U+0F93", "U+0F94", "U+0F95", "U+0F96", "U+0F97", "U+0F99", "U+0F9A", "U+0F9B",
    "U+0F9C", "U+0F9D", "U+0F9E", "U+0F9F", "U+0FA0", "U+0FA1", "U+0FA2", "U+0FA3", "U+0FA4",
    "U+0FA5", "U+0FA6", "U+0FA7", "U+0FA8", "U+0FA9", "U+0FAA", "U+0FAB", "U+0FAC", "U+0FAD",
    "U+0FAE", "U+0FAF", "U+0FB0", "U+0FB1", "U+0FB2", "U+0FB3", "U+0FB4", "U+0FB5", "U+0FB6",
    "U+0FB7", "U+0FB8", "U+0FB9", "U+0FBA", "U+0FBB", "U+0FBC", "U+0FC6", "U+102D", "U+102E",
    "U+102F", "U+1030", "U+1032", "U+1033", "U+1034", "U+1035", "U+1036", "U+1037", "U+1039",
    "U+103A", "U+103D", "U+103E", "U+1058", "U+1059", "U+105E", "U+105F", "U+1060", "U+1071",
    "U+1072", "U+1073", "U+1074", "U+1082", "U+1085", "U+1086", "U+108D", "U+109D", "U+10FC",
    "U+135D", "U+135E", "U+135F", "U+1712", "U+1713", "U+1714", "U+1732", "U+1733", "U+1752",
    "U+1753", "U+1772", "U+1773", "U+17B4", "U+17B5", "U+17B7", "U+17B8", "U+17B9", "U+17BA",
    "U+17BB", "U+17BC", "U+17BD", "U+17C6", "U+17C9", "U+17CA", "U+17CB", "U+17CC", "U+17CD",
    "U+17CE", "U+17CF", "U+17D0", "U+17D1", "U+17D2", "U+17D3", "U+17D7", "U+17DD", "U+180B",
    "U+180C", "U+180D", "U+180E", "U+180F", "U+1843", "U+1885", "U+1886", "U+18A9", "U+1920",
    "U+1921", "U+1922", "U+1927", "U+1928", "U+1932", "U+1939", "U+193A", "U+193B", "U+1A17",
    "U+1A18", "U+1A1B", "U+1A56", "U+1A58", "U+1A59", "U+1A5A", "U+1A5B", "U+1A5C", "U+1A5D",
    "U+1A5E", "U+1A60", "U+1A62", "U+1A65", "U+1A66", "U+1A67", "U+1A68", "U+1A69", "U+1A6A",
    "U+1A6B", "U+1A6C", "U+1A73", "U+1A74", "U+1A75", "U+1A76", "U+1A77", "U+1A78", "U+1A79",
    "U+1A7A", "U+1A7B", "U+1A7C", "U+1A7F", "U+1AA7", "U+1AB0", "U+1AB1", "U+1AB2", "U+1AB3",
    "U+1AB4", "U+1AB5", "U+1AB6", "U+1AB7", "U+1AB8", "U+1AB9", "U+1ABA", "U+1ABB", "U+1ABC",
    "U+1ABD", "U+1ABE", "U+1ABF", "U+1AC0", "U+1AC1", "U+1AC2", "U+1AC3", "U+1AC4", "U+1AC5",
    "U+1AC6", "U+1AC7", "U+1AC8", "U+1AC9", "U+1ACA", "U+1ACB", "U+1ACC", "U+1ACD", "U+1ACE",
    "U+1B00", "U+1B01", "U+1B02", "U+1B03", "U+1B34", "U+1B36", "U+1B37", "U+1B38", "U+1B39",
    "U+1B3A", "U+1B3C", "U+1B42", "U+1B6B", "U+1B6C", "U+1B6D", "U+1B6E", "U+1B6F", "U+1B70",
    "U+1B71", "U+1B72", "U+1B73", "U+1B80", "U+1B81", "U+1BA2", "U+1BA3", "U+1BA4", "U+1BA5",
    "U+1BA8", "U+1BA9", "U+1BAB", "U+1BAC", "U+1BAD", "U+1BE6", "U+1BE8", "U+1BE9", "U+1BED",
    "U+1BEF", "U+1BF0", "U+1BF1", "U+1C2C", "U+1C2D", "U+1C2E", "U+1C2F", "U+1C30", "U+1C31",
    "U+1C32", "U+1C33", "U+1C36", "U+1C37", "U+1C78", "U+1C79", "U+1C7A", "U+1C7B", "U+1C7C",
    "U+1C7D", "U+1CD0", "U+1CD1", "U+1CD2", "U+1CD4", "U+1CD5", "U+1CD6", "U+1CD7", "U+1CD8",
    "U+1CD9", "U+1CDA", "U+1CDB", "U+1CDC", "U+1CDD", "U+1CDE", "U+1CDF", "U+1CE0", "U+1CE2",
    "U+1CE3", "U+1CE4", "U+1CE5", "U+1CE6", "U+1CE7", "U+1CE8", "U+1CED", "U+1CF4", "U+1CF8",
    "U+1CF9", "U+1D2C", "U+1D2D", "U+1D2E", "U+1D2F", "U+1D30", "U+1D31", "U+1D32", "U+1D33",
    "U+1D34", "U+1D35", "U+1D36", "U+1D37", "U+1D38", "U+1D39", "U+1D3A", "U+1D3B", "U+1D3C",
    "U+1D3D", "U+1D3E", "U+1D3F", "U+1D40", "U+1D41", "U+1D42", "U+1D43", "U+1D44", "U+1D45",
    "U+1D46", "U+1D47", "U+1D48", "U+1D49", "U+1D4A", "U+1D4B", "U+1D4C", "U+1D4D", "U+1D4E",
    "U+1D4F", "U+1D50", "U+1D51", "U+1D52", "U+1D53", "U+1D54", "U+1D55", "U+1D56", "U+1D57",
    "U+1D58", "U+1D59", "U+1D5A", "U+1D5B", "U+1D5C", "U+1D5D", "U+1D5E", "U+1D5F", "U+1D60",
    "U+1D61", "U+1D62", "U+1D63", "U+1D64", "U+1D65", "U+1D66", "U+1D67", "U+1D68", "U+1D69",
    "U+1D6A", "U+1D78", "U+1D9B", "U+1D9C", "U+1D9D", "U+1D9E", "U+1D9F", "U+1DA0", "U+1DA1",
    "U+1DA2", "U+1DA3", "U+1DA4", "U+1DA5", "U+1DA6", "U+1DA7", "U+1DA8", "U+1DA9", "U+1DAA",
    "U+1DAB", "U+1DAC", "U+1DAD", "U+1DAE", "U+1DAF", "U+1DB0", "U+1DB1", "U+1DB2", "U+1DB3",
    "U+1DB4", "U+1DB5", "U+1DB6", "U+1DB7", "U+1DB8", "U+1DB9", "U+1DBA", "U+1DBB", "U+1DBC",
    "U+1DBD", "U+1DBE", "U+1DBF", "U+1DC0", "U+1DC1", "U+1DC2", "U+1DC3", "U+1DC4", "U+1DC5",
    "U+1DC6", "U+1DC7", "U+1DC8", "U+1DC9", "U+1DCA", "U+1DCB", "U+1DCC", "U+1DCD", "U+1DCE",
    "U+1DCF", "U+1DD0", "U+1DD1", "U+1DD2", "U+1DD3", "U+1DD4", "U+1DD5", "U+1DD6", "U+1DD7",
    "U+1DD8", "U+1DD9", "U+1DDA", "U+1DDB", "U+1DDC", "U+1DDD", "U+1DDE", "U+1DDF", "U+1DE0",
    "U+1DE1", "U+1DE2", "U+1DE3", "U+1DE4", "U+1DE5", "U+1DE6", "U+1DE7", "U+1DE8", "U+1DE9",
    "U+1DEA", "U+1DEB", "U+1DEC", "U+1DED", "U+1DEE", "U+1DEF", "U+1DF0", "U+1DF1", "U+1DF2",
    "U+1DF3", "U+1DF4", "U+1DF5", "U+1DF6", "U+1DF7", "U+1DF8", "U+1DF9", "U+1DFA", "U+1DFB",
    "U+1DFC", "U+1DFD", "U+1DFE", "U+1DFF", "U+1FBD", "U+1FBF", "U+1FC0", "U+1FC1", "U+1FCD",
    "U+1FCE", "U+1FCF", "U+1FDD", "U+1FDE", "U+1FDF", "U+1FED", "U+1FEE", "U+1FEF", "U+1FFD",
    "U+1FFE", "U+200B", "U+200C", "U+200D", "U+200E", "U+200F", "U+2018", "U+2019", "U+2024",
    "U+2027", "U+202A", "U+202B", "U+202C", "U+202D", "U+202E", "U+2060", "U+2061", "U+2062",
    "U+2063", "U+2064", "U+2066", "U+2067", "U+2068", "U+2069", "U+206A", "U+206B", "U+206C",
    "U+206D", "U+206E", "U+206F", "U+2071", "U+207F", "U+2090", "U+2091", "U+2092", "U+2093",
    "U+2094", "U+2095", "U+2096", "U+2097", "U+2098", "U+2099", "U+209A", "U+209B", "U+209C",
    "U+20D0", "U+20D1", "U+20D2", "U+20D3", "U+20D4", "U+20D5", "U+20D6", "U+20D7", "U+20D8",
    "U+20D9", "U+20DA", "U+20DB", "U+20DC", "U+20DD", "U+20DE", "U+20DF", "U+20E0", "U+20E1",
    "U+20E2", "U+20E3", "U+20E4", "U+20E5", "U+20E6", "U+20E7", "U+20E8", "U+20E9", "U+20EA",
    "U+20EB", "U+20EC", "U+20ED", "U+20EE", "U+20EF", "U+20F0", "U+2C7C", "U+2C7D", "U+2CEF",
    "U+2CF0", "U+2CF1", "U+2D6F", "U+2D7F", "U+2DE0", "U+2DE1", "U+2DE2", "U+2DE3", "U+2DE4",
    "U+2DE5", "U+2DE6", "U+2DE7", "U+2DE8", "U+2DE9", "U+2DEA", "U+2DEB", "U+2DEC", "U+2DED",
    "U+2DEE", "U+2DEF", "U+2DF0", "U+2DF1", "U+2DF2", "U+2DF3", "U+2DF4", "U+2DF5", "U+2DF6",
    "U+2DF7", "U+2DF8", "U+2DF9", "U+2DFA", "U+2DFB", "U+2DFC", "U+2DFD", "U+2DFE", "U+2DFF",
    "U+2E2F", "U+3005", "U+302A", "U+302B", "U+302C", "U+302D", "U+3031", "U+3032", "U+3033",
    "U+3034", "U+3035", "U+303B", "U+3099", "U+309A", "U+309B", "U+309C", "U+309D", "U+309E",
    "U+30FC", "U+30FD", "U+30FE", "U+A015", "U+A4F8", "U+A4F9", "U+A4FA", "U+A4FB", "U+A4FC",
    "U+A4FD", "U+A60C", "U+A66F", "U+A670", "U+A671", "U+A672", "U+A674", "U+A675", "U+A676",
    "U+A677", "U+A678", "U+A679", "U+A67A", "U+A67B", "U+A67C", "U+A67D", "U+A67F", "U+A69C",
    "U+A69D", "U+A69E", "U+A69F", "U+A6F0", "U+A6F1", "U+A700", "U+A701", "U+A702", "U+A703",
    "U+A704", "U+A705", "U+A706", "U+A707", "U+A708", "U+A709", "U+A70A", "U+A70B", "U+A70C",
    "U+A70D", "U+A70E", "U+A70F", "U+A710", "U+A711", "U+A712", "U+A713", "U+A714", "U+A715",
    "U+A716", "U+A717", "U+A718", "U+A719", "U+A71A", "U+A71B", "U+A71C", "U+A71D", "U+A71E",
    "U+A71F", "U+A720", "U+A721", "U+A770", "U+A788", "U+A789", "U+A78A", "U+A7F2", "U+A7F3",
    "U+A7F4", "U+A7F8", "U+A7F9", "U+A802", "U+A806", "U+A80B", "U+A825", "U+A826", "U+A82C",
    "U+A8C4", "U+A8C5", "U+A8E0", "U+A8E1", "U+A8E2", "U+A8E3", "U+A8E4", "U+A8E5", "U+A8E6",
    "U+A8E7", "U+A8E8", "U+A8E9", "U+A8EA", "U+A8EB", "U+A8EC", "U+A8ED", "U+A8EE", "U+A8EF",
    "U+A8F0", "U+A8F1", "U+A8FF", "U+A926", "U+A927", "U+A928", "U+A929", "U+A92A", "U+A92B",
    "U+A92C", "U+A92D", "U+A947", "U+A948", "U+A949", "U+A94A", "U+A94B", "U+A94C", "U+A94D",
    "U+A94E", "U+A94F", "U+A950", "U+A951", "U+A980", "U+A981", "U+A982", "U+A9B3", "U+A9B6",
    "U+A9B7", "U+A9B8", "U+A9B9", "U+A9BC", "U+A9BD", "U+A9CF", "U+A9E5", "U+A9E6", "U+AA29",
    "U+AA2A", "U+AA2B", "U+AA2C", "U+AA2D", "U+AA2E", "U+AA31", "U+AA32", "U+AA35", "U+AA36",
    "U+AA43", "U+AA4C", "U+AA70", "U+AA7C", "U+AAB0", "U+AAB2", "U+AAB3", "U+AAB4", "U+AAB7",
    "U+AAB8", "U+AABE", "U+AABF", "U+AAC1", "U+AADD", "U+AAEC", "U+AAED", "U+AAF3", "U+AAF4",
    "U+AAF6", "U+AB5B", "U+AB5C", "U+AB5D", "U+AB5E", "U+AB5F", "U+AB69", "U+AB6A", "U+AB6B",
    "U+ABE5", "U+ABE8", "U+ABED", "U+FB1E", "U+FBB2", "U+FBB3", "U+FBB4", "U+FBB5", "U+FBB6",
    "U+FBB7", "U+FBB8", "U+FBB9", "U+FBBA", "U+FBBB", "U+FBBC", "U+FBBD", "U+FBBE", "U+FBBF",
    "U+FBC0", "U+FBC1", "U+FBC2", "U+FE00", "U+FE01", "U+FE02", "U+FE03", "U+FE04", "U+FE05",
    "U+FE06", "U+FE07", "U+FE08", "U+FE09", "U+FE0A", "U+FE0B", "U+FE0C", "U+FE0D", "U+FE0E",
    "U+FE0F", "U+FE13", "U+FE20", "U+FE21", "U+FE22", "U+FE23", "U+FE24", "U+FE25", "U+FE26",
    "U+FE27", "U+FE28", "U+FE29", "U+FE2A", "U+FE2B", "U+FE2C", "U+FE2D", "U+FE2E", "U+FE2F",
    "U+FE52", "U+FE55", "U+FEFF", "U+FF07", "U+FF0E", "U+FF1A", "U+FF3E", "U+FF40", "U+FF70",
    "U+FF9E", "U+FF9F", "U+FFE3", "U+FFF9", "U+FFFA", "U+FFFB", "U+101FD", "U+102E0", "U+10376",
    "U+10377", "U+10378", "U+10379", "U+1037A", "U+10780", "U+10781", "U+10782", "U+10783",
    "U+10784", "U+10785", "U+10787", "U+10788", "U+10789", "U+1078A", "U+1078B", "U+1078C",
    "U+1078D", "U+1078E", "U+1078F", "U+10790", "U+10791", "U+10792", "U+10793", "U+10794",
    "U+10795", "U+10796", "U+10797", "U+10798", "U+10799", "U+1079A", "U+1079B", "U+1079C",
    "U+1079D", "U+1079E", "U+1079F", "U+107A0", "U+107A1", "U+107A2", "U+107A3", "U+107A4",
    "U+107A5", "U+107A6", "U+107A7", "U+107A8", "U+107A9", "U+107AA", "U+107AB", "U+107AC",
    "U+107AD", "U+107AE", "U+107AF", "U+107B0", "U+107B2", "U+107B3", "U+107B4", "U+107B5",
    "U+107B6", "U+107B7", "U+107B8", "U+107B9", "U+107BA", "U+10A01", "U+10A02", "U+10A03",
    "U+10A05", "U+10A06", "U+10A0C", "U+10A0D", "U+10A0E", "U+10A0F", "U+10A38", "U+10A39",
    "U+10A3A", "U+10A3F", "U+10AE5", "U+10AE6", "U+10D24", "U+10D25", "U+10D26", "U+10D27",
    "U+10EAB", "U+10EAC", "U+10F46", "U+10F47", "U+10F48", "U+10F49", "U+10F4A", "U+10F4B",
    "U+10F4C", "U+10F4D", "U+10F4E", "U+10F4F", "U+10F50", "U+10F82", "U+10F83", "U+10F84",
    "U+10F85", "U+11001", "U+11038", "U+11039", "U+1103A", "U+1103B", "U+1103C", "U+1103D",
    "U+1103E", "U+1103F", "U+11040", "U+11041", "U+11042", "U+11043", "U+11044", "U+11045",
    "U+11046", "U+11070", "U+11073", "U+11074", "U+1107F", "U+11080", "U+11081", "U+110B3",
    "U+110B4", "U+110B5", "U+110B6", "U+110B9", "U+110BA", "U+110BD", "U+110C2", "U+110CD",
    "U+11100", "U+11101", "U+11102", "U+11127", "U+11128", "U+11129", "U+1112A", "U+1112B",
    "U+1112D", "U+1112E", "U+1112F", "U+11130", "U+11131", "U+11132", "U+11133", "U+11134",
    "U+11173", "U+11180", "U+11181", "U+111B6", "U+111B7", "U+111B8", "U+111B9", "U+111BA",
    "U+111BB", "U+111BC", "U+111BD", "U+111BE", "U+111C9", "U+111CA", "U+111CB", "U+111CC",
    "U+111CF", "U+1122F", "U+11230", "U+11231", "U+11234", "U+11236", "U+11237", "U+1123E",
    "U+112DF", "U+112E3", "U+112E4", "U+112E5", "U+112E6", "U+112E7", "U+112E8", "U+112E9",
    "U+112EA", "U+11300", "U+11301", "U+1133B", "U+1133C", "U+11340", "U+11366", "U+11367",
    "U+11368", "U+11369", "U+1136A", "U+1136B", "U+1136C", "U+11370", "U+11371", "U+11372",
    "U+11373", "U+11374", "U+11438", "U+11439", "U+1143A", "U+1143B", "U+1143C", "U+1143D",
    "U+1143E", "U+1143F", "U+11442", "U+11443", "U+11444", "U+11446", "U+1145E", "U+114B3",
    "U+114B4", "U+114B5", "U+114B6", "U+114B7", "U+114B8", "U+114BA", "U+114BF", "U+114C0",
    "U+114C2", "U+114C3", "U+115B2", "U+115B3", "U+115B4", "U+115B5", "U+115BC", "U+115BD",
    "U+115BF", "U+115C0", "U+115DC", "U+115DD", "U+11633", "U+11634", "U+11635", "U+11636",
    "U+11637", "U+11638", "U+11639", "U+1163A", "U+1163D", "U+1163F", "U+11640", "U+116AB",
    "U+116AD", "U+116B0", "U+116B1", "U+116B2", "U+116B3", "U+116B4", "U+116B5", "U+116B7",
    "U+1171D", "U+1171E", "U+1171F", "U+11722", "U+11723", "U+11724", "U+11725", "U+11727",
    "U+11728", "U+11729", "U+1172A", "U+1172B", "U+1182F", "U+11830", "U+11831", "U+11832",
    "U+11833", "U+11834", "U+11835", "U+11836", "U+11837", "U+11839", "U+1183A", "U+1193B",
    "U+1193C", "U+1193E", "U+11943", "U+119D4", "U+119D5", "U+119D6", "U+119D7", "U+119DA",
    "U+119DB", "U+119E0", "U+11A01", "U+11A02", "U+11A03", "U+11A04", "U+11A05", "U+11A06",
    "U+11A07", "U+11A08", "U+11A09", "U+11A0A", "U+11A33", "U+11A34", "U+11A35", "U+11A36",
    "U+11A37", "U+11A38", "U+11A3B", "U+11A3C", "U+11A3D", "U+11A3E", "U+11A47", "U+11A51",
    "U+11A52", "U+11A53", "U+11A54", "U+11A55", "U+11A56", "U+11A59", "U+11A5A", "U+11A5B",
    "U+11A8A", "U+11A8B", "U+11A8C", "U+11A8D", "U+11A8E", "U+11A8F", "U+11A90", "U+11A91",
    "U+11A92", "U+11A93", "U+11A94", "U+11A95", "U+11A96", "U+11A98", "U+11A99", "U+11C30",
    "U+11C31", "U+11C32", "U+11C33", "U+11C34", "U+11C35", "U+11C36", "U+11C38", "U+11C39",
    "U+11C3A", "U+11C3B", "U+11C3C", "U+11C3D", "U+11C3F", "U+11C92", "U+11C93", "U+11C94",
    "U+11C95", "U+11C96", "U+11C97", "U+11C98", "U+11C99", "U+11C9A", "U+11C9B", "U+11C9C",
    "U+11C9D", "U+11C9E", "U+11C9F", "U+11CA0", "U+11CA1", "U+11CA2", "U+11CA3", "U+11CA4",
    "U+11CA5", "U+11CA6", "U+11CA7", "U+11CAA", "U+11CAB", "U+11CAC", "U+11CAD", "U+11CAE",
    "U+11CAF", "U+11CB0", "U+11CB2", "U+11CB3", "U+11CB5", "U+11CB6", "U+11D31", "U+11D32",
    "U+11D33", "U+11D34", "U+11D35", "U+11D36", "U+11D3A", "U+11D3C", "U+11D3D", "U+11D3F",
    "U+11D40", "U+11D41", "U+11D42", "U+11D43", "U+11D44", "U+11D45", "U+11D47", "U+11D90",
    "U+11D91", "U+11D95", "U+11D97", "U+11EF3", "U+11EF4", "U+13430", "U+13431", "U+13432",
    "U+13433", "U+13434", "U+13435", "U+13436", "U+13437", "U+13438", "U+16AF0", "U+16AF1",
    "U+16AF2", "U+16AF3", "U+16AF4", "U+16B30", "U+16B31", "U+16B32", "U+16B33", "U+16B34",
    "U+16B35", "U+16B36", "U+16B40", "U+16B41", "U+16B42", "U+16B43", "U+16F4F", "U+16F8F",
    "U+16F90", "U+16F91", "U+16F92", "U+16F93", "U+16F94", "U+16F95", "U+16F96", "U+16F97",
    "U+16F98", "U+16F99", "U+16F9A", "U+16F9B", "U+16F9C", "U+16F9D", "U+16F9E", "U+16F9F",
    "U+16FE0", "U+16FE1", "U+16FE3", "U+16FE4", "U+1AFF0", "U+1AFF1", "U+1AFF2", "U+1AFF3",
    "U+1AFF5", "U+1AFF6", "U+1AFF7", "U+1AFF8", "U+1AFF9", "U+1AFFA", "U+1AFFB", "U+1AFFD",
    "U+1AFFE", "U+1BC9D", "U+1BC9E", "U+1BCA0", "U+1BCA1", "U+1BCA2", "U+1BCA3", "U+1CF00",
    "U+1CF01", "U+1CF02", "U+1CF03", "U+1CF04", "U+1CF05", "U+1CF06", "U+1CF07", "U+1CF08",
    "U+1CF09", "U+1CF0A", "U+1CF0B", "U+1CF0C", "U+1CF0D", "U+1CF0E", "U+1CF0F", "U+1CF10",
    "U+1CF11", "U+1CF12", "U+1CF13", "U+1CF14", "U+1CF15", "U+1CF16", "U+1CF17", "U+1CF18",
    "U+1CF19", "U+1CF1A", "U+1CF1B", "U+1CF1C", "U+1CF1D", "U+1CF1E", "U+1CF1F", "U+1CF20",
    "U+1CF21", "U+1CF22", "U+1CF23", "U+1CF24", "U+1CF25", "U+1CF26", "U+1CF27", "U+1CF28",
    "U+1CF29", "U+1CF2A", "U+1CF2B", "U+1CF2C", "U+1CF2D", "U+1CF30", "U+1CF31", "U+1CF32",
    "U+1CF33", "U+1CF34", "U+1CF35", "U+1CF36", "U+1CF37", "U+1CF38", "U+1CF39", "U+1CF3A",
    "U+1CF3B", "U+1CF3C", "U+1CF3D", "U+1CF3E", "U+1CF3F", "U+1CF40", "U+1CF41", "U+1CF42",
    "U+1CF43", "U+1CF44", "U+1CF45", "U+1CF46", "U+1D167", "U+1D168", "U+1D169", "U+1D173",
    "U+1D174", "U+1D175", "U+1D176", "U+1D177", "U+1D178", "U+1D179", "U+1D17A", "U+1D17B",
    "U+1D17C", "U+1D17D", "U+1D17E", "U+1D17F", "U+1D180", "U+1D181", "U+1D182", "U+1D185",
    "U+1D186", "U+1D187", "U+1D188", "U+1D189", "U+1D18A", "U+1D18B", "U+1D1AA", "U+1D1AB",
    "U+1D1AC", "U+1D1AD", "U+1D242", "U+1D243", "U+1D244", "U+1DA00", "U+1DA01", "U+1DA02",
    "U+1DA03", "U+1DA04", "U+1DA05", "U+1DA06", "U+1DA07", "U+1DA08", "U+1DA09", "U+1DA0A",
    "U+1DA0B", "U+1DA0C", "U+1DA0D", "U+1DA0E", "U+1DA0F", "U+1DA10", "U+1DA11", "U+1DA12",
    "U+1DA13", "U+1DA14", "U+1DA15", "U+1DA16", "U+1DA17", "U+1DA18", "U+1DA19", "U+1DA1A",
    "U+1DA1B", "U+1DA1C", "U+1DA1D", "U+1DA1E", "U+1DA1F", "U+1DA20", "U+1DA21", "U+1DA22",
    "U+1DA23", "U+1DA24", "U+1DA25", "U+1DA26", "U+1DA27", "U+1DA28", "U+1DA29", "U+1DA2A",
    "U+1DA2B", "U+1DA2C", "U+1DA2D", "U+1DA2E", "U+1DA2F", "U+1DA30", "U+1DA31", "U+1DA32",
    "U+1DA33", "U+1DA34", "U+1DA35", "U+1DA36", "U+1DA3B", "U+1DA3C", "U+1DA3D", "U+1DA3E",
    "U+1DA3F", "U+1DA40", "U+1DA41", "U+1DA42", "U+1DA43", "U+1DA44", "U+1DA45", "U+1DA46",
    "U+1DA47", "U+1DA48", "U+1DA49", "U+1DA4A", "U+1DA4B", "U+1DA4C", "U+1DA4D", "U+1DA4E",
    "U+1DA4F", "U+1DA50", "U+1DA51", "U+1DA52", "U+1DA53", "U+1DA54", "U+1DA55", "U+1DA56",
    "U+1DA57", "U+1DA58", "U+1DA59", "U+1DA5A", "U+1DA5B", "U+1DA5C", "U+1DA5D", "U+1DA5E",
    "U+1DA5F", "U+1DA60", "U+1DA61", "U+1DA62", "U+1DA63", "U+1DA64", "U+1DA65", "U+1DA66",
    "U+1DA67", "U+1DA68", "U+1DA69", "U+1DA6A", "U+1DA6B", "U+1DA6C", "U+1DA75", "U+1DA84",
    "U+1DA9B", "U+1DA9C", "U+1DA9D", "U+1DA9E", "U+1DA9F", "U+1DAA1", "U+1DAA2", "U+1DAA3",
    "U+1DAA4", "U+1DAA5", "U+1DAA6", "U+1DAA7", "U+1DAA8", "U+1DAA9", "U+1DAAA", "U+1DAAB",
    "U+1DAAC", "U+1DAAD", "U+1DAAE", "U+1DAAF", "U+1E000", "U+1E001", "U+1E002", "U+1E003",
    "U+1E004", "U+1E005", "U+1E006", "U+1E008", "U+1E009", "U+1E00A", "U+1E00B", "U+1E00C",
    "U+1E00D", "U+1E00E", "U+1E00F", "U+1E010", "U+1E011", "U+1E012", "U+1E013", "U+1E014",
    "U+1E015", "U+1E016", "U+1E017", "U+1E018", "U+1E01B", "U+1E01C", "U+1E01D", "U+1E01E",
    "U+1E01F", "U+1E020", "U+1E021", "U+1E023", "U+1E024", "U+1E026", "U+1E027", "U+1E028",
    "U+1E029", "U+1E02A", "U+1E130", "U+1E131", "U+1E132", "U+1E133", "U+1E134", "U+1E135",
    "U+1E136", "U+1E137", "U+1E138", "U+1E139", "U+1E13A", "U+1E13B", "U+1E13C", "U+1E13D",
    "U+1E2AE", "U+1E2EC", "U+1E2ED", "U+1E2EE", "U+1E2EF", "U+1E8D0", "U+1E8D1", "U+1E8D2",
    "U+1E8D3", "U+1E8D4", "U+1E8D5", "U+1E8D6", "U+1E944", "U+1E945", "U+1E946", "U+1E947",
    "U+1E948", "U+1E949", "U+1E94A", "U+1E94B", "U+1F3FB", "U+1F3FC", "U+1F3FD", "U+1F3FE",
    "U+1F3FF", "U+E0001", "U+E0020", "U+E0021", "U+E0022", "U+E0023", "U+E0024", "U+E0025",
    "U+E0026", "U+E0027", "U+E0028", "U+E0029", "U+E002A", "U+E002B", "U+E002C", "U+E002D",
    "U+E002E", "U+E002F", "U+E0030", "U+E0031", "U+E0032", "U+E0033", "U+E0034", "U+E0035",
    "U+E0036", "U+E0037", "U+E0038", "U+E0039", "U+E003A", "U+E003B", "U+E003C", "U+E003D",
    "U+E003E", "U+E003F", "U+E0040", "U+E0041", "U+E0042", "U+E0043", "U+E0044", "U+E0045",
    "U+E0046", "U+E0047", "U+E0048", "U+E0049", "U+E004A", "U+E004B", "U+E004C", "U+E004D",
    "U+E004E", "U+E004F", "U+E0050", "U+E0051", "U+E0052", "U+E0053", "U+E0054", "U+E0055",
    "U+E0056", "U+E0057", "U+E0058", "U+E0059", "U+E005A", "U+E005B", "U+E005C", "U+E005D",
    "U+E005E", "U+E005F", "U+E0060", "U+E0061", "U+E0062", "U+E0063", "U+E0064", "U+E0065",
    "U+E0066", "U+E0067", "U+E0068", "U+E0069", "U+E006A", "U+E006B", "U+E006C", "U+E006D",
    "U+E006E", "U+E006F", "U+E0070", "U+E0071", "U+E0072", "U+E0073", "U+E0074", "U+E0075",
    "U+E0076", "U+E0077", "U+E0078", "U+E0079", "U+E007A", "U+E007B", "U+E007C", "U+E007D",
    "U+E007E", "U+E007F", "U+E0100", "U+E0101", "U+E0102", "U+E0103", "U+E0104", "U+E0105",
    "U+E0106", "U+E0107", "U+E0108", "U+E0109", "U+E010A", "U+E010B", "U+E010C", "U+E010D",
    "U+E010E", "U+E010F", "U+E0110", "U+E0111", "U+E0112", "U+E0113", "U+E0114", "U+E0115",
    "U+E0116", "U+E0117", "U+E0118", "U+E0119", "U+E011A", "U+E011B", "U+E011C", "U+E011D",
    "U+E011E", "U+E011F", "U+E0120", "U+E0121", "U+E0122", "U+E0123", "U+E0124", "U+E0125",
    "U+E0126", "U+E0127", "U+E0128", "U+E0129", "U+E012A", "U+E012B", "U+E012C", "U+E012D",
    "U+E012E", "U+E012F", "U+E0130", "U+E0131", "U+E0132", "U+E0133", "U+E0134", "U+E0135",
    "U+E0136", "U+E0137", "U+E0138", "U+E0139", "U+E013A", "U+E013B", "U+E013C", "U+E013D",
    "U+E013E", "U+E013F", "U+E0140", "U+E0141", "U+E0142", "U+E0143", "U+E0144", "U+E0145",
    "U+E0146", "U+E0147", "U+E0148", "U+E0149", "U+E014A", "U+E014B", "U+E014C", "U+E014D",
    "U+E014E", "U+E014F", "U+E0150", "U+E0151", "U+E0152", "U+E0153", "U+E0154", "U+E0155",
    "U+E0156", "U+E0157", "U+E0158", "U+E0159", "U+E015A", "U+E015B", "U+E015C", "U+E015D",
    "U+E015E", "U+E015F", "U+E0160", "U+E0161", "U+E0162", "U+E0163", "U+E0164", "U+E0165",
    "U+E0166", "U+E0167", "U+E0168", "U+E0169", "U+E016A", "U+E016B", "U+E016C", "U+E016D",
    "U+E016E", "U+E016F", "U+E0170", "U+E0171", "U+E0172", "U+E0173", "U+E0174", "U+E0175",
    "U+E0176", "U+E0177", "U+E0178", "U+E0179", "U+E017A", "U+E017B", "U+E017C", "U+E017D",
    "U+E017E", "U+E017F", "U+E0180", "U+E0181", "U+E0182", "U+E0183", "U+E0184", "U+E0185",
    "U+E0186", "U+E0187", "U+E0188", "U+E0189", "U+E018A", "U+E018B", "U+E018C", "U+E018D",
    "U+E018E", "U+E018F", "U+E0190", "U+E0191", "U+E0192", "U+E0193", "U+E0194", "U+E0195",
    "U+E0196", "U+E0197", "U+E0198", "U+E0199", "U+E019A", "U+E019B", "U+E019C", "U+E019D",
    "U+E019E", "U+E019F", "U+E01A0", "U+E01A1", "U+E01A2", "U+E01A3", "U+E01A4", "U+E01A5",
    "U+E01A6", "U+E01A7", "U+E01A8", "U+E01A9", "U+E01AA", "U+E01AB", "U+E01AC", "U+E01AD",
    "U+E01AE", "U+E01AF", "U+E01B0", "U+E01B1", "U+E01B2", "U+E01B3", "U+E01B4", "U+E01B5",
    "U+E01B6", "U+E01B7", "U+E01B8", "U+E01B9", "U+E01BA", "U+E01BB", "U+E01BC", "U+E01BD",
    "U+E01BE", "U+E01BF", "U+E01C0", "U+E01C1", "U+E01C2", "U+E01C3", "U+E01C4", "U+E01C5",
    "U+E01C6", "U+E01C7", "U+E01C8", "U+E01C9", "U+E01CA", "U+E01CB", "U+E01CC", "U+E01CD",
    "U+E01CE", "U+E01CF", "U+E01D0", "U+E01D1", "U+E01D2", "U+E01D3", "U+E01D4", "U+E01D5",
    "U+E01D6", "U+E01D7", "U+E01D8", "U+E01D9", "U+E01DA", "U+E01DB", "U+E01DC", "U+E01DD",
    "U+E01DE", "U+E01DF", "U+E01E0", "U+E01E1", "U+E01E2", "U+E01E3", "U+E01E4", "U+E01E5",
    "U+E01E6", "U+E01E7", "U+E01E8", "U+E01E9", "U+E01EA", "U+E01EB", "U+E01EC", "U+E01ED",
    "U+E01EE", "U+E01EF" }
LowerDomain == {p[1] : p \in LowerPairs}

\* str.lower() on one character that stands alone: a text, of one character
\* or of two.
LowerChar(c) ==
    IF c \in LowerDomain THEN (CHOOSE p \in LowerPairs : p[1] = c)[2] ELSE <<c>>

\* The capital sigma and the two small ones.
CapitalSigma == "U+03A3"
SmallSigma == "U+03C3"
FinalSigma == "U+03C2"

\* str.lower() on a capital sigma (handle_capital_sigma of CPython): it ends
\* a word when the nearest character before it that is not skipped is a
\* cased letter and the nearest such character after it is not.
IsFinalSigma(t, i) ==
    /\ \E j \in 1..(i - 1) :
          /\ t[j] \in CasedLetters
          /\ \A k \in (j + 1)..(i - 1) : t[k] \in CaseIgnorable
    /\ ~ \E j \in (i + 1)..Len(t) :
          /\ t[j] \in CasedLetters
          /\ \A k \in (i + 1)..(j - 1) : t[k] \in CaseIgnorable

\* The lower-case form of the character at place i of a text.
LowerAt(t, i) ==
    IF t[i] = CapitalSigma
    THEN IF IsFinalSigma(t, i) THEN <<FinalSigma>> ELSE <<SmallSigma>>
    ELSE LowerChar(t[i])

RECURSIVE LowerFrom(_, _)
LowerFrom(t, i) == IF i > Len(t) THEN <<>> ELSE LowerAt(t, i) \o LowerFrom(t, i + 1)

\* The characters whose lower-case form is longer than one character.
LongLower == {"U+0130"}

\* str.lower() on a text.
Lower(t) ==
    IF \E i \in 1..Len(t) : t[i] \in LongLower
    THEN LowerFrom(t, 1)
    ELSE [i \in 1..Len(t) |-> LowerAt(t, i)[1]]

\* str(n) for a non-negative integer: its decimal digits.
RECURSIVE Str(_)
Str(n) == IF n < 10 THEN <<Digits[n + 1]>>
          ELSE Str(n \div 10) \o <<Digits[(n % 10) + 1]>>

\* re.search("^lit$", t): "$" also matches before one trailing newline.
RegexFull(lit, t) == t = lit \/ t = lit \o <<"\n">>

\* filters.TEXT: the message carries a non-empty text.
FilterTEXT(t) == Len(t) > 0

\* The characters of a bot command and of a bot's name: ASCII letters,
\* digits and the underscore.
CommandChars ==
    {UpperCase[i] : i \in 1..26} \cup {LowerCase[i] : i \in 1..26}
        \cup {Digits[i] : i \in 1..10} \cup {"_"}

\* The name of the bot the token belongs to (Bot.username, which the
\* platform gives at start).
BotUsername == <<"s", "t", "u", "b", "_", "b", "o", "t">>

\* The length of the longest run of command characters a text has from
\* place i on.
RECURSIVE RunFrom(_, _)
RunFrom(t, i) ==
    IF i <= Len(t) /\ t[i] \in CommandChars THEN 1 + RunFrom(t, i + 1) ELSE 0

\* The length of the name that follows a command of the given length with
\* an "@", 0 when no "@" follows.
MentionLength(t, name) ==
    IF 1 + name < Len(t) /\ t[2 + name] = "@" THEN RunFrom(t, 3 + name) ELSE 0

\* The length of an entity made of "/", a command and perhaps a name: the
\* name counts when it has 3 to 32 characters.
EntityLength(name, mention) ==
    IF mention >= 3 /\ mention <= 32 THEN 1 + name + 1 + mention ELSE 1 + name

\* The code point a character written "U+XXXX" stands for.
HexDigits == <<"0", "1", "2", "3", "4", "5", "6", "7", "8", "9",
               "A", "B", "C", "D", "E", "F">>
HexValue(d) == (CHOOSE i \in 1..16 : HexDigits[i] = d) - 1
RECURSIVE HexNumber(_, _)
HexNumber(s, n) ==
    IF n = 0 THEN 0 ELSE 16 * HexNumber(s, n - 1) + HexValue(SubSeq(s, n, n))
CodePoint(c) == HexNumber(SubSeq(c, 3, Len(c)), Len(c) - 2)

\* The code points above U+007F in the general categories L (letter) and N
\* (number), as ranges in ascending order: the first and the last code point
\* of the k-th range are the entries 2k - 1 and 2k.
WordRanges ==
    <<170, 170, 178, 179, 181, 181, 185, 186, 188, 190, 192, 214, 216, 246, 248, 705, 710,
      721, 736, 740, 748, 748, 750, 750, 880, 884, 886, 887, 890, 893, 895, 895, 902, 902,
      904, 906, 908, 908, 910, 929, 931, 1013, 1015, 1153, 1162, 1327, 1329, 1366, 1369,
      1369, 1376, 1416, 1488, 1514, 1519, 1522, 1568, 1610, 1632, 1641, 1646, 1647, 1649,
      1747, 1749, 1749, 1765, 1766, 1774, 1788, 1791, 1791, 1808, 1808, 1810, 1839, 1869,
      1957, 1969, 1969, 1984, 2026, 2036, 2037, 2042, 2042, 2048, 2069, 2074, 2074, 2084,
      2084, 2088, 2088, 2112, 2136, 2144, 2154, 2160, 2183, 2185, 2190, 2208, 2249, 2308,
      2361, 2365, 2365, 2384, 2384, 2392, 2401, 2406, 2415, 2417, 2432, 2437, 2444, 2447,
      2448, 2451, 2472, 2474, 2480, 2482, 2482, 2486, 2489, 2493, 2493, 2510, 2510, 2524,
      2525, 2527, 2529, 2534, 2545, 2548, 2553, 2556, 2556, 2565, 2570, 2575, 2576, 2579,
      2600, 2602, 2608, 2610, 2611, 2613, 2614, 2616, 2617, 2649, 2652, 2654, 2654, 2662,
      2671, 2674, 2676, 2693, 2701, 2703, 2705, 2707, 2728, 2730, 2736, 2738, 2739, 2741,
      2745, 2749, 2749, 2768, 2768, 2784, 2785, 2790, 2799, 2809, 2809, 2821, 2828, 2831,
      2832, 2835, 2856, 2858, 2864, 2866, 2867, 2869, 2873, 2877, 2877, 2908, 2909, 2911,
      2913, 2918, 2927, 2929, 2935, 2947, 2947, 2949, 2954, 2958, 2960, 2962, 2965, 2969,
      2970, 2972, 2972, 2974, 2975, 2979, 2980, 2984, 2986, 2990, 3001, 3024, 3024, 3046,
      3058, 3077, 3084, 3086, 3088, 3090, 3112, 3114, 3129, 3133, 3133, 3160, 3162, 3165,
      3165, 3168, 3169, 3174, 3183, 3192, 3198, 3200, 3200, 3205, 3212, 3214, 3216, 3218,
      3240, 3242, 3251, 3253, 3257, 3261, 3261, 3293, 3294, 3296, 3297, 3302, 3311, 3313,
      3314, 3332, 3340, 3342, 3344, 3346, 3386, 3389, 3389, 3406, 3406, 3412, 3414, 3416,
      3425, 3430, 3448, 3450, 3455, 3461, 3478, 3482, 3505, 3507, 3515, 3517, 3517, 3520,
      3526, 3558, 3567, 3585, 3632, 3634, 3635, 3648, 3654, 3664, 3673, 3713, 3714, 3716,
      3716, 3718, 3722, 3724, 3747, 3749, 3749, 3751, 3760, 3762, 3763, 3773, 3773, 3776,
      3780, 3782, 3782, 3792, 3801, 3804, 3807, 3840, 3840, 3872, 3891, 3904, 3911, 3913,
      3948, 3976, 3980, 4096, 4138, 4159, 4169, 4176, 4181, 4186, 4189, 4193, 4193, 4197,
      4198, 4206, 4208, 4213, 4225, 4238, 4238, 4240, 4249, 4256, 4293, 4295, 4295, 4301,
      4301, 4304, 4346, 4348, 4680, 4682, 4685, 4688, 4694, 4696, 4696, 4698, 4701, 4704,
      4744, 4746, 4749, 4752, 4784, 4786, 4789, 4792, 4798, 4800, 4800, 4802, 4805, 4808,
      4822, 4824, 4880, 4882, 4885, 4888, 4954, 4969, 4988, 4992, 5007, 5024, 5109, 5112,
      5117, 5121, 5740, 5743, 5759, 5761, 5786, 5792, 5866, 5870, 5880, 5888, 5905, 5919,
      5937, 5952, 5969, 5984, 5996, 5998, 6000, 6016, 6067, 6103, 6103, 6108, 6108, 6112,
      6121, 6128, 6137, 6160, 6169, 6176, 6264, 6272, 6276, 6279, 6312, 6314, 6314, 6320,
      6389, 6400, 6430, 6470, 6509, 6512, 6516, 6528, 6571, 6576, 6601, 6608, 6618, 6656,
      6678, 6688, 6740, 6784, 6793, 6800, 6809, 6823, 6823, 6917, 6963, 6981, 6988, 6992,
      7001, 7043, 7072, 7086, 7141, 7168, 7203, 7232, 7241, 7245, 7293, 7296, 7304, 7312,
      7354, 7357, 7359, 7401, 7404, 7406, 7411, 7413, 7414, 7418, 7418, 7424, 7615, 7680,
      7957, 7960, 7965, 7968, 8005, 8008, 8013, 8016, 8023, 8025, 8025, 8027, 8027, 8029,
      8029, 8031, 8061, 8064, 8116, 8118, 8124, 8126, 8126, 8130, 8132, 8134, 8140, 8144,
      8147, 8150, 8155, 8160, 8172, 8178, 8180, 8182, 8188, 8304, 8305, 8308, 8313, 8319,
      8329, 8336, 8348, 8450, 8450, 8455, 8455, 8458, 8467, 8469, 8469, 8473, 8477, 8484,
      8484, 8486, 8486, 8488, 8488, 8490, 8493, 8495, 8505, 8508, 8511, 8517, 8521, 8526,
      8526, 8528, 8585, 9312, 9371, 9450, 9471, 10102, 10131, 11264, 11492, 11499, 11502,
      11506, 11507, 11517, 11517, 11520, 11557, 11559, 11559, 11565, 11565, 11568, 11623,
      11631, 11631, 11648, 11670, 11680, 11686, 11688, 11694, 11696, 11702, 11704, 11710,
      11712, 11718, 11720, 11726, 11728, 11734, 11736, 11742, 11823, 11823, 12293, 12295,
      12321, 12329, 12337, 12341, 12344, 12348, 12353, 12438, 12445, 12447, 12449, 12538,
      12540, 12543, 12549, 12591, 12593, 12686, 12690, 12693, 12704, 12735, 12784, 12799,
      12832, 12841, 12872, 12879, 12881, 12895, 12928, 12937, 12977, 12991, 13312, 19903,
      19968, 42124, 42192, 42237, 42240, 42508, 42512, 42539, 42560, 42606, 42623, 42653,
      42656, 42735, 42775, 42783, 42786, 42888, 42891, 42954, 42960, 42961, 42963, 42963,
      42965, 42969, 42994, 43009, 43011, 43013, 43015, 43018, 43020, 43042, 43056, 43061,
      43072, 43123, 43138, 43187, 43216, 43225, 43250, 43255, 43259, 43259, 43261, 43262,
      43264, 43301, 43312, 43334, 43360, 43388, 43396, 43442, 43471, 43481, 43488, 43492,
      43494, 43518, 43520, 43560, 43584, 43586, 43588, 43595, 43600, 43609, 43616, 43638,
      43642, 43642, 43646, 43695, 43697, 43697, 43701, 43702, 43705, 43709, 43712, 43712,
      43714, 43714, 43739, 43741, 43744, 43754, 43762, 43764, 43777, 43782, 43785, 43790,
      43793, 43798, 43808, 43814, 43816, 43822, 43824, 43866, 43868, 43881, 43888, 44002,
      44016, 44025, 44032, 55203, 55216, 55238, 55243, 55291, 63744, 64109, 64112, 64217,
      64256, 64262, 64275, 64279, 64285, 64285, 64287, 64296, 64298, 64310, 64312, 64316,
      64318, 64318, 64320, 64321, 64323, 64324, 64326, 64433, 64467, 64829, 64848, 64911,
      64914, 64967, 65008, 65019, 65136, 65140, 65142, 65276, 65296, 65305, 65313, 65338,
      65345, 65370, 65382, 65470, 65474, 65479, 65482, 65487, 65490, 65495, 65498, 65500,
      65536, 65547, 65549, 65574, 65576, 65594, 65596, 65597, 65599, 65613, 65616, 65629,
      65664, 65786, 65799, 65843, 65856, 65912, 65930, 65931, 66176, 66204, 66208, 66256,
      66273, 66299, 66304, 66339, 66349, 66378, 66384, 66421, 66432, 66461, 66464, 66499,
      66504, 66511, 66513, 66517, 66560, 66717, 66720, 66729, 66736, 66771, 66776, 66811,
      66816, 66855, 66864, 66915, 66928, 66938, 66940, 66954, 66956, 66962, 66964, 66965,
      66967, 66977, 66979, 66993, 66995, 67001, 67003, 67004, 67072, 67382, 67392, 67413,
      67424, 67431, 67456, 67461, 67463, 67504, 67506, 67514, 67584, 67589, 67592, 67592,
      67594, 67637, 67639, 67640, 67644, 67644, 67647, 67669, 67672, 67702, 67705, 67742,
      67751, 67759, 67808, 67826, 67828, 67829, 67835, 67867, 67872, 67897, 67968, 68023,
      68028, 68047, 68050, 68096, 68112, 68115, 68117, 68119, 68121, 68149, 68160, 68168,
      68192, 68222, 68224, 68255, 68288, 68295, 68297, 68324, 68331, 68335, 68352, 68405,
      68416, 68437, 68440, 68466, 68472, 68497, 68521, 68527, 68608, 68680, 68736, 68786,
      68800, 68850, 68858, 68899, 68912, 68921, 69216, 69246, 69248, 69289, 69296, 69297,
      69376, 69415, 69424, 69445, 69457, 69460, 69488, 69505, 69552, 69579, 69600, 69622,
      69635, 69687, 69714, 69743, 69745, 69746, 69749, 69749, 69763, 69807, 69840, 69864,
      69872, 69881, 69891, 69926, 69942, 69951, 69956, 69956, 69959, 69959, 69968, 70002,
      70006, 70006, 70019, 70066, 70081, 70084, 70096, 70106, 70108, 70108, 70113, 70132,
      70144, 70161, 70163, 70187, 70272, 70278, 70280, 70280, 70282, 70285, 70287, 70301,
      70303, 70312, 70320, 70366, 70384, 70393, 70405, 70412, 70415, 70416, 70419, 70440,
      70442, 70448, 70450, 70451, 70453, 70457, 70461, 70461, 70480, 70480, 70493, 70497,
      70656, 70708, 70727, 70730, 70736, 70745, 70751, 70753, 70784, 70831, 70852, 70853,
      70855, 70855, 70864, 70873, 71040, 71086, 71128, 71131, 71168, 71215, 71236, 71236,
      71248, 71257, 71296, 71338, 71352, 71352, 71360, 71369, 71424, 71450, 71472, 71483,
      71488, 71494, 71680, 71723, 71840, 71922, 71935, 71942, 71945, 71945, 71948, 71955,
      71957, 71958, 71960, 71983, 71999, 71999, 72001, 72001, 72016, 72025, 72096, 72103,
      72106, 72144, 72161, 72161, 72163, 72163, 72192, 72192, 72203, 72242, 72250, 72250,
      72272, 72272, 72284, 72329, 72349, 72349, 72368, 72440, 72704, 72712, 72714, 72750,
      72768, 72768, 72784, 72812, 72818, 72847, 72960, 72966, 72968, 72969, 72971, 73008,
      73030, 73030, 73040, 73049, 73056, 73061, 73063, 73064, 73066, 73097, 73112, 73112,
      73120, 73129, 73440, 73458, 73648, 73648, 73664, 73684, 73728, 74649, 74752, 74862,
      74880, 75075, 77712, 77808, 77824, 78894, 82944, 83526, 92160, 92728, 92736, 92766,
      92768, 92777, 92784, 92862, 92864, 92873, 92880, 92909, 92928, 92975, 92992, 92995,
      93008, 93017, 93019, 93025, 93027, 93047, 93053, 93071, 93760, 93846, 93952, 94026,
      94032, 94032, 94099, 94111, 94176, 94177, 94179, 94179, 94208, 100343, 100352,
      101589, 101632, 101640, 110576, 110579, 110581, 110587, 110589, 110590, 110592,
      110882, 110928, 110930, 110948, 110951, 110960, 111355, 113664, 113770, 113776,
      113788, 113792, 113800, 113808, 113817, 119520, 119539, 119648, 119672, 119808,
      119892, 119894, 119964, 119966, 119967, 119970, 119970, 119973, 119974, 119977,
      119980, 119982, 119993, 119995, 119995, 119997, 120003, 120005, 120069, 120071,
      120074, 120077, 120084, 120086, 120092, 120094, 120121, 120123, 120126, 120128,
      120132, 120134, 120134, 120138, 120144, 120146, 120485, 120488, 120512, 120514,
      120538, 120540, 120570, 120572, 120596, 120598, 120628, 120630, 120654, 120656,
      120686, 120688, 120712, 120714, 120744, 120746, 120770, 120772, 120779, 120782,
      120831, 122624, 122654, 123136, 123180, 123191, 123197, 123200, 123209, 123214,
      123214, 123536, 123565, 123584, 123627, 123632, 123641, 124896, 124902, 124904,
      124907, 124909, 124910, 124912, 124926, 124928, 125124, 125127, 125135, 125184,
      125251, 125259, 125259, 125264, 125273, 126065, 126123, 126125, 126127, 126129,
      126132, 126209, 126253, 126255, 126269, 126464, 126467, 126469, 126495, 126497,
      126498, 126500, 126500, 126503, 126503, 126505, 126514, 126516, 126519, 126521,
      126521, 126523, 126523, 126530, 126530, 126535, 126535, 126537, 126537, 126539,
      126539, 126541, 126543, 126545, 126546, 126548, 126548, 126551, 126551, 126553,
      126553, 126555, 126555, 126557, 126557, 126559, 126559, 126561, 126562, 126564,
      126564, 126567, 126570, 126572, 126578, 126580, 126583, 126585, 126588, 126590,
      126590, 126592, 126601, 126603, 126619, 126625, 126627, 126629, 126633, 126635,
      126651, 127232, 127244, 130032, 130041, 131072, 173791, 173824, 177976, 177984,
      178205, 178208, 183969, 183984, 191456, 194560, 195101, 196608, 201546>>

\* The number of ranges of WordRanges.
WordRangeCount == Len(WordRanges) \div 2

\* Whether one of the ranges lo..hi of WordRanges holds the code point.
RECURSIVE InWordRanges(_, _, _)
InWordRanges(point, lo, hi) ==
    IF lo > hi THEN FALSE
    ELSE LET mid == (lo + hi) \div 2
         IN IF point < WordRanges[2 * mid - 1] THEN InWordRanges(point, lo, mid - 1)
            ELSE IF point > WordRanges[2 * mid] THEN InWordRanges(point, mid + 1, hi)
            ELSE TRUE

\* A word character of the platform's text entities: a letter or a number
\* of any script, or "_".
IsWordCharacter(c) ==
    IF Len(c) = 1 THEN c \in CommandChars
    ELSE InWordRanges(CodePoint(c), 1, WordRangeCount)

\* Whether an entity of the given length may end where it does: at the end
\* of the text, or before a character that is neither "/", "<", ">" nor a
\* word character.
EntityEnds(t, length) ==
    \/ length = Len(t)
    \/ /\ t[length + 1] \notin {"/", "<", ">"}
       /\ ~IsWordCharacter(t[length + 1])

\* The entity of a text that opens with "/" and a command of the given
\* length, 0 to 64 characters being the lengths a command may have.
EntityOf(t, name) ==
    IF name < 1 \/ name > 64 THEN 0
    ELSE IF EntityEnds(t, EntityLength(name, MentionLength(t, name)))
    THEN EntityLength(name, MentionLength(t, name))
    ELSE 0

\* The length of the bot_command entity the platform puts at offset 0 of a
\* message, 0 when it puts none there: "/", 1 to 64 command characters,
\* then "@" with a name of 3 to 32 such characters when one follows, and
\* after that the end of the text or a character that is neither "/", "<",
\* ">" nor a word character.
CommandEntity(t) ==
    IF t = <<>> \/ Head(t) # "/" THEN 0 ELSE EntityOf(t, RunFrom(t, 2))

\* The places of a character in a text.
PlacesOf(t, c) == {i \in 1..Len(t) : t[i] = c}

\* The first of a set of places, and the end of the part that starts at a
\* place: before the next place of the set, or at the end of the text.
FirstPlace(places) == CHOOSE i \in places : \A k \in places : i <= k
PartEnd(text, places, from) ==
    IF \E k \in places : k >= from
    THEN FirstPlace({k \in places : k >= from}) - 1
    ELSE Len(text)

\* str.split("@") on a command, the bot's own name being appended: the first
\* two parts.
SplitAt(command, ats) ==
    IF ats = {} THEN <<command, BotUsername>>
    ELSE <<SubSeq(command, 1, FirstPlace(ats) - 1),
           SubSeq(command, FirstPlace(ats) + 1,
                  PartEnd(command, ats, FirstPlace(ats) + 1))>>

\* CommandHandler.check_update: text[1:entity.length] split at "@".
CommandParts(t) ==
    SplitAt(SubSeq(t, 2, CommandEntity(t)), PlacesOf(SubSeq(t, 2, CommandEntity(t)), "@"))

\* The command of the parts when they name this bot, in lower case.
AddressedCommand(parts) ==
    IF Lower(parts[2]) = Lower(BotUsername) THEN Lower(parts[1]) ELSE <<>>

\* The command a CommandHandler of this bot reads in a text, in lower case;
\* <<>> when the text opens with no command or with one for another bot.
CommandOf(t) ==
    IF CommandEntity(t) = 0 THEN <<>> ELSE AddressedCommand(CommandParts(t))

\* ------------------------------------------------------------- constants
\* Conversation states of src/main.py; END is ConversationHandler.END, the
\* value a handler returns to leave the dialogue (no dialogue is active).
STATE_BOOKING_START == 1
STATE_BOOKING_NAME == 2
STATE_BOOKING_PHONE == 3
STATE_BOOKING_BRANCH == 4
STATE_BOOKING_DATE == 5
STATE_BOOKING_CONFIRM == 6
STATE_CHAT_INPUT == 7
STATE_CHAT_MODE == 8
END == -1

\* Keys of BRANCHES.
BRANCHES == { <<"c","a","i","r","o">>, <<"s","h","e","r","b","i","n">> }

\* ---------------------------------------------------------------- bounds
\* Platform user ids 1..NumUsers; the number of messages MedicalBot handles
\* in one run (MaxMsgs) and the number of updates HakeemBot handles (MaxUpdates).
NumUsers == 2
MaxMsgs == 6
MaxUpdates == 2
Users == 1..NumUsers

\* ------------------------------------------------------------------ state
VARIABLES
    ADMIN_ID,       \* os.getenv("ADMIN_ID"): [none, text]
    patients,       \* rows of table patients
    patients_seq,   \* AUTOINCREMENT counter of table patients
    booking_conv,   \* per user: state of the booking ConversationHandler
    user_data,      \* per user: context.user_data
    outbox,         \* per user: the last message the bot delivered
    reply_log,      \* the reply_text calls of the handler that ran last, in order
    db_log,         \* store operations of the handler that ran last
    last,           \* the update handled last: user, text, handler, state before
    budget,         \* messages still to be handled in this run
    GROQ_API_KEY,   \* os.getenv("GROQ_API_KEY"): [none, text]
    GEMINI_API_KEY, \* os.getenv("GEMINI_API_KEY"): [none, text]
    hk_users,       \* HakeemDatabase: rows of table users
    hk_chats,       \* HakeemDatabase: rows of table chats
    hk,             \* HakeemBot.handle_message: the update being handled
    hk_log,         \* what handling that update has done so far, in order
    update_queue,   \* HakeemBot, Application.update_queue: received, not yet handled
    chat_conv,      \* per user: state of the chat ConversationHandler
    chat_history,   \* rows of table chat_history
    chat_log,       \* what the handle_chat that ran last did, in order
    TELEGRAM_TOKEN, \* os.getenv("TELEGRAM_TOKEN"): [none, text]
    main_proc,      \* the process of main.py: pc, exit status, what is built
    hk_proc,        \* the process of medical_bot_complete.py, likewise
    boot_log,       \* per process: what its start and its end did, in order
    elapsed         \* the clock: whole seconds since the bots started (BOT_START_TIME)

main_vars == <<ADMIN_ID, patients, patients_seq, booking_conv, user_data, outbox,
               reply_log, db_log, last>>
hakeem_vars == <<GROQ_API_KEY, GEMINI_API_KEY, hk_users, hk_chats, hk, hk_log,
                 update_queue>>
chat_vars == <<chat_conv, chat_history, chat_log>>
proc_vars == <<TELEGRAM_TOKEN, main_proc, hk_proc, boot_log, elapsed>>
vars == <<main_vars, chat_vars, hakeem_vars, proc_vars, budget>>

\* A process: where it stands (boot, running, exited), its exit status once
\* exited, and what it has constructed.
Booting == [pc |-> "boot", status |-> 0, built |-> {}]
Running == [pc |-> "running", status |-> 0, built |-> {"db", "engine", "handlers"}]
Exited(status, built) == [pc |-> "exited", status |-> status, built |-> built]

\* An optional text of the environment: None, or a text (maybe empty).
None == [none |-> TRUE, text |-> <<>>]
Some(t) == [none |-> FALSE, text |-> t]
\* Python truth of an optional text: neither None nor "".
Truthy(v) == ~v.none /\ v.text # <<>>

\* ------------------------------------------------------- python dictionaries
EmptyDict == [k \in {} |-> <<>>]
SetKey(d, key, v) == [k \in (DOMAIN d) \cup {key} |-> IF k = key THEN v ELSE d[k]]
HasKey(d, key) == key \in DOMAIN d

\* -------------------------------------------------------- PatientDatabase
\* A row of patients: id (AUTOINCREMENT), telegram_id (UNIQUE), name, phone,
\* branch, appointment_date.
Row(id, telegram_id, name, phone, branch, appointment_date, now) ==
    [id |-> id, telegram_id |-> telegram_id, name |-> name, phone |-> phone,
     branch |-> branch, appointment_date |-> appointment_date,
     created_at |-> now, updated_at |-> now]
\* A plain INSERT in place of INSERT OR REPLACE: the row of the same
\* telegram_id is kept.
add_patient_insert_only(rows, seq, telegram_id, name, phone, branch, appointment_date, now) ==
    [rows |-> rows \cup {Row(seq + 1, telegram_id, name, phone, branch, appointment_date, now)},
     seq |-> seq + 1]

\* An UPDATE of the row of the same telegram_id in place of its replacement:
\* the row keeps its id and its created_at.
add_patient_update_in_place(rows, seq, telegram_id, name, phone, branch, appointment_date, now) ==
    IF \E r \in rows : r.telegram_id = telegram_id
    THEN [rows |-> {IF r.telegram_id = telegram_id
                    THEN [r EXCEPT !.name = name, !.phone = phone, !.branch = branch,
                                   !.appointment_date = appointment_date,
                                   !.updated_at = now]
                    ELSE r : r \in rows},
          seq |-> seq]
    ELSE [rows |-> rows \cup {Row(seq + 1, telegram_id, name, phone, branch,
                                  appointment_date, now)},
          seq |-> seq + 1]

\* INSERT OR REPLACE: the rows in conflict on the UNIQUE telegram_id are
\* deleted, then the new row is inserted under a fresh id; created_at takes
\* its default CURRENT_TIMESTAMP and updated_at is given CURRENT_TIMESTAMP,
\* both read once for the statement.
add_patient(rows, seq, telegram_id, name, phone, branch, appointment_date, now) ==
    [rows |-> {r \in rows : r.telegram_id # telegram_id}
                \cup {Row(seq + 1, telegram_id, name, phone, branch, appointment_date, now)},
     seq |-> seq + 1]

\* SELECT * FROM patients WHERE telegram_id = ?, fetchone(): the set holding
\* the row, or the empty set for None.  A storage error yields None.
get_patient(rows, telegram_id, db_ok) ==
    IF db_ok THEN {r \in rows : r.telegram_id = telegram_id} ELSE {}

\* The count returned whether or not the query succeeded.
get_patient_count_unguarded(rows, db_ok) == Cardinality(rows)

\* SELECT COUNT(*) FROM patients; 0 on a storage error.
get_patient_count(rows, db_ok) == IF db_ok THEN Cardinality(rows) ELSE 0

DbOp(op, ok) == [op |-> op, ok |-> ok]

\* ----------------------------------------------------------------- routing
\* The booking ConversationHandler: outside a dialogue only the entry points
\* are tried; inside, the handlers of the current state in order, then the
\* fallbacks.  "none": the update is left to the handlers registered after.
BookingRoute(state, t) ==
    IF state = END
    THEN IF \/ RegexFull(T_BookAppointment, t)
            \/ RegexFull(T_UpdateInfo, t)
            \/ RegexFull(T_ProceedWithBooking, t)
         THEN "book_appointment" ELSE "none"
    ELSE IF state = STATE_BOOKING_START
              /\ (RegexFull(T_UpdateInfo, t) \/ RegexFull(T_ProceedWithBooking, t))
         THEN "book_appointment"
    ELSE IF state \in {STATE_BOOKING_START, STATE_BOOKING_NAME} /\ FilterTEXT(t)
         THEN "booking_get_name"
    ELSE IF state = STATE_BOOKING_PHONE /\ FilterTEXT(t) THEN "booking_get_phone"
    ELSE IF state = STATE_BOOKING_BRANCH /\ FilterTEXT(t) THEN "booking_get_branch"
    ELSE IF state = STATE_BOOKING_DATE /\ FilterTEXT(t) THEN "booking_get_date"
    ELSE IF state = STATE_BOOKING_CONFIRM /\ FilterTEXT(t) THEN "booking_confirm"
    ELSE IF RegexFull(T_Cancel, t) THEN "booking_fallback"
    ELSE "none"

\* The chat ConversationHandler, tried after the booking one.
ChatRoute(state, t) ==
    IF state = END
    THEN IF RegexFull(T_ChatWithAI, t) \/ RegexFull(T_Chat, t)
         THEN "chat_start" ELSE "none"
    ELSE IF state = STATE_CHAT_MODE /\ FilterTEXT(t) THEN "select_chat_mode"
    ELSE IF state = STATE_CHAT_INPUT /\ RegexFull(T_AskAnotherQuestion, t)
         THEN "handle_chat"
    ELSE IF state = STATE_CHAT_INPUT /\ RegexFull(T_SwitchMode, t) THEN "chat_start"
    ELSE IF /\ state = STATE_CHAT_INPUT
            /\ FilterTEXT(t)
            /\ ~(RegexFull(T_GoHome, t) \/ RegexFull(T_ExitChat, t))
         THEN "handle_chat"
    ELSE IF RegexFull(T_GoHome, t) \/ RegexFull(T_ExitChat, t) \/ RegexFull(T_Cancel, t)
         THEN "chat_fallback"
    ELSE "none"

\* The handlers that run inside the chat dialogue.
ChatHandlers == {"chat_start", "select_chat_mode", "handle_chat", "chat_fallback"}

\* The two dialogues registered before the command handlers.
Route_dialogues_first(u, t) ==
    LET command == CommandOf(t)
        booking == BookingRoute(booking_conv[u], t)
        chat == ChatRoute(chat_conv[u], t)
    IN IF booking # "none" THEN booking
       ELSE IF chat # "none" THEN chat
       ELSE IF command = <<"s","t","a","r","t">> THEN "start"
       ELSE IF command = <<"h","e","l","p">> THEN "help_command"
       ELSE IF command = <<"p","r","o","f","i","l","e">> THEN "show_profile"
       ELSE IF command = <<"s","t","a","t","s">> THEN "stats"
       ELSE IF RegexFull(T_MedicalAnalysis, t) THEN "chat_start_button"
       ELSE IF RegexFull(T_MyProfile, t) THEN "show_profile"
       ELSE IF RegexFull(T_Help, t) THEN "help_command"
       ELSE IF RegexFull(T_Home, t) THEN "start"
       ELSE "unhandled"

\* Application.add_handler order (one group): the first handler whose filter
\* accepts the update handles it.
Route(u, t) ==
    LET command == CommandOf(t)
        booking == BookingRoute(booking_conv[u], t)
        chat == ChatRoute(chat_conv[u], t)
    IN IF command = <<"s","t","a","r","t">> THEN "start"
       ELSE IF command = <<"h","e","l","p">> THEN "help_command"
       ELSE IF command = <<"p","r","o","f","i","l","e">> THEN "show_profile"
       ELSE IF command = <<"s","t","a","t","s">> THEN "stats"
       ELSE IF booking # "none" THEN booking
       ELSE IF chat # "none" THEN chat
       ELSE IF RegexFull(T_MedicalAnalysis, t) THEN "chat_start_button"
       ELSE IF RegexFull(T_MyProfile, t) THEN "show_profile"
       ELSE IF RegexFull(T_Help, t) THEN "help_command"
       ELSE IF RegexFull(T_Home, t) THEN "start"
       ELSE "unhandled"

\* What every handled update records.
Handled(u, t, h) ==
    /\ main_proc.pc = "running"
    /\ budget > 0
    /\ budget' = budget - 1
    /\ last' = [user |-> u, text |-> t, handler |-> h, state |-> booking_conv[u],
                chat_state |-> chat_conv[u]]
    /\ IF h \in ChatHandlers THEN TRUE ELSE UNCHANGED chat_vars
    /\ UNCHANGED <<hakeem_vars, proc_vars>>

\* One call of update.message.reply_text: the message, and whether it was
\* delivered (ok) or the call raised.
Sent(kind, n, ok) == [kind |-> kind, n |-> n, ok |-> ok]

\* What the one reply of a handler may meet: it is delivered; or reply_text
\* raises, the exception leaves the handler, and the reply of error_handler
\* is delivered (error_ok) or raises as well.
SendOutcomes == {[ok |-> TRUE, error_ok |-> TRUE], [ok |-> FALSE, error_ok |-> TRUE],
                 [ok |-> FALSE, error_ok |-> FALSE]}

\* The reply delivered.
Delivers == {[ok |-> TRUE, error_ok |-> TRUE]}

\* The outbox after the calls of sends: the last message delivered, or what
\* the outbox held when none was.
Delivered(box, sends) ==
    LET ok == {i \in 1..Len(sends) : sends[i].ok}
    IN IF ok = {} THEN box
       ELSE LET i == CHOOSE j \in ok : \A k \in ok : k <= j
            IN [kind |-> sends[i].kind, n |-> sends[i].n]

\* The reply_text calls of one handled update.
Send(u, sends) ==
    /\ reply_log' = sends
    /\ outbox' = [outbox EXCEPT ![u] = Delivered(@, sends)]

\* MedicalBot.error_handler: the reply to the update that caused the
\* exception, inside try/except: when it raises too, nothing is sent.
error_handler(error_ok) == <<Sent("error", 0, error_ok)>>

\* "return state" after the reply: the ConversationHandler takes the state a
\* handler returns, and keeps its own when the handler raised.
Returns(conv, u, state, ok) == IF ok THEN [conv EXCEPT ![u] = state] ELSE conv

\* await update.message.reply_text(...), the one reply of a handler: when the
\* call raises, the handler stops there and error_handler runs.
Reply(u, kind, n, send) ==
    Send(u, <<Sent(kind, n, send.ok)>>
            \o (IF send.ok THEN <<>> ELSE error_handler(send.error_ok)))

\* No update is being handled by HakeemBot.  handler is the position, among
\* the handlers main() adds, of the one the update was dispatched to.
HkIdle == [pc |-> "idle", user |-> 0, text |-> <<>>, thinking_msg |-> FALSE,
           response |-> None, engine_used |-> "None", handler |-> 0]

\* ---------------------------------------------------------------- handlers
\* An exception escaping a handler before its reply: error_handler runs, and
\* the dialogue keeps its state.
Raise(u) ==
    /\ \E error_ok \in BOOLEAN : Send(u, error_handler(error_ok))
    /\ UNCHANGED <<patients, patients_seq, booking_conv>>

\* MedicalBot.start: /start and the Home button.
start(u, t, sends) ==
    /\ Route(u, t) = "start"
    /\ Handled(u, t, "start")
    /\ \E db_ok \in BOOLEAN : db_log' = <<DbOp("get_patient", db_ok)>>
    /\ \E send \in sends : Reply(u, "welcome", 0, send)
    /\ UNCHANGED <<ADMIN_ID, patients, patients_seq, booking_conv, user_data>>

\* MedicalBot.help_command: /help and the Help button.
help_command(u, t, sends) ==
    /\ Route(u, t) = "help_command"
    /\ Handled(u, t, "help_command")
    /\ db_log' = <<>>
    /\ \E send \in sends : Reply(u, "help", 0, send)
    /\ UNCHANGED <<ADMIN_ID, patients, patients_seq, booking_conv, user_data>>

\* MedicalBot.show_profile: /profile and the My Profile button.
show_profile(u, t, sends) ==
    /\ Route(u, t) = "show_profile"
    /\ Handled(u, t, "show_profile")
    /\ \E db_ok \in BOOLEAN, send \in sends :
         /\ db_log' = <<DbOp("get_patient", db_ok)>>
         /\ LET patient == get_patient(patients, u, db_ok)
            IN IF patient # {}
               THEN Reply(u, "profile", (CHOOSE r \in patient : TRUE).created_at, send)
               ELSE Reply(u, "no_profile", 0, send)
    /\ UNCHANGED <<ADMIN_ID, patients, patients_seq, booking_conv, user_data>>

\* The admin check without the comparison of the ids.
IsAdmin_any_user(admin_id, user_id) == Truthy(admin_id)

\* The guard of MedicalBot.stats: ADMIN_ID and str(user_id) == str(ADMIN_ID).
IsAdmin(admin_id, user_id) ==
    /\ Truthy(admin_id)
    /\ Str(user_id) = admin_id.text

\* MedicalBot.stats: /stats.
stats(u, t, sends) ==
    /\ Route(u, t) = "stats"
    /\ Handled(u, t, "stats")
    /\ \E send \in sends :
         IF IsAdmin(ADMIN_ID, u)
         THEN \E db_ok \in BOOLEAN :
                /\ db_log' = <<DbOp("get_patient_count", db_ok)>>
                /\ Reply(u, "stats", get_patient_count(patients, db_ok), send)
         ELSE /\ db_log' = <<>>
              /\ Reply(u, "unauthorized", 0, send)
    /\ UNCHANGED <<ADMIN_ID, patients, patients_seq, booking_conv, user_data>>

\* MedicalBot.book_appointment: the entry points, and the two choices of the
\* Start state.
book_appointment(u, t, sends) ==
    /\ Route(u, t) = "book_appointment"
    /\ Handled(u, t, "book_appointment")
    /\ user_data' = [user_data EXCEPT ![u] = SetKey(@, "booking", EmptyDict)]
    /\ \E db_ok \in BOOLEAN, send \in sends :
         /\ db_log' = <<DbOp("get_patient", db_ok)>>
         /\ IF get_patient(patients, u, db_ok) # {}
            THEN /\ Reply(u, "existing_info", 0, send)
                 /\ booking_conv' = Returns(booking_conv, u, STATE_BOOKING_START, send.ok)
            ELSE /\ Reply(u, "ask_name", 0, send)
                 /\ booking_conv' = Returns(booking_conv, u, STATE_BOOKING_NAME, send.ok)
    /\ UNCHANGED <<ADMIN_ID, patients, patients_seq>>

\* The booking fields kept in one dict shared by all the users who are
\* booking.
SetBookingField_shared(u, field, value) ==
    user_data' = [w \in Users |->
                    IF HasKey(user_data[w], "booking")
                    THEN SetKey(user_data[w], "booking",
                                SetKey(user_data[w]["booking"], field, value))
                    ELSE user_data[w]]

\* The booking dict replaced by one holding the field alone.
SetBookingField_replace(u, field, value) ==
    user_data' = [user_data EXCEPT
                    ![u] = SetKey(@, "booking", SetKey(EmptyDict, field, value))]

\* context.user_data['booking'][field] = value
SetBookingField(u, field, value) ==
    user_data' = [user_data EXCEPT
                    ![u] = SetKey(@, "booking", SetKey(@["booking"], field, value))]

\* MedicalBot.booking_get_name
booking_get_name(u, t, sends) ==
    /\ Route(u, t) = "booking_get_name"
    /\ Handled(u, t, "booking_get_name")
    /\ db_log' = <<>>
    /\ IF HasKey(user_data[u], "booking")
       THEN /\ SetBookingField(u, "name", t)
            /\ \E send \in sends :
                 /\ Reply(u, "ask_phone", 0, send)
                 /\ booking_conv' = Returns(booking_conv, u, STATE_BOOKING_PHONE, send.ok)
            /\ UNCHANGED <<patients, patients_seq>>
       ELSE Raise(u) /\ UNCHANGED user_data
    /\ UNCHANGED ADMIN_ID

\* MedicalBot.booking_get_phone
booking_get_phone(u, t, sends) ==
    /\ Route(u, t) = "booking_get_phone"
    /\ Handled(u, t, "booking_get_phone")
    /\ db_log' = <<>>
    /\ IF HasKey(user_data[u], "booking")
       THEN /\ SetBookingField(u, "phone", t)
            /\ \E send \in sends :
                 /\ Reply(u, "ask_branch", 0, send)
                 /\ booking_conv' = Returns(booking_conv, u, STATE_BOOKING_BRANCH, send.ok)
            /\ UNCHANGED <<patients, patients_seq>>
       ELSE Raise(u) /\ UNCHANGED user_data
    /\ UNCHANGED ADMIN_ID

\* booking_get_branch accepting every text as a branch.
IsBranch_any_text(branch) == TRUE

\* booking_get_branch: branch in BRANCHES (the keys of the dict)
IsBranch(branch) == branch \in BRANCHES

\* MedicalBot.booking_get_branch
booking_get_branch(u, t, sends) ==
    /\ Route(u, t) = "booking_get_branch"
    /\ Handled(u, t, "booking_get_branch")
    /\ db_log' = <<>>
    /\ IF ~IsBranch(Lower(t))
       THEN /\ \E send \in sends : Reply(u, "choose_branch", 0, send)
            /\ UNCHANGED <<booking_conv, user_data, patients, patients_seq>>
       ELSE IF HasKey(user_data[u], "booking")
       THEN /\ SetBookingField(u, "branch", Lower(t))
            /\ \E send \in sends :
                 /\ Reply(u, "ask_date", 0, send)
                 /\ booking_conv' = Returns(booking_conv, u, STATE_BOOKING_DATE, send.ok)
            /\ UNCHANGED <<patients, patients_seq>>
       ELSE Raise(u) /\ UNCHANGED user_data
    /\ UNCHANGED ADMIN_ID

\* MedicalBot.booking_get_date: the summary reads name, phone and branch.
booking_get_date(u, t, sends) ==
    /\ Route(u, t) = "booking_get_date"
    /\ Handled(u, t, "booking_get_date")
    /\ db_log' = <<>>
    /\ IF ~HasKey(user_data[u], "booking")
       THEN Raise(u) /\ UNCHANGED user_data
       ELSE /\ SetBookingField(u, "date", t)
            /\ IF {"name", "phone", "branch"} \subseteq DOMAIN user_data[u]["booking"]
               THEN /\ \E send \in sends :
                         /\ Reply(u, "booking_summary", 0, send)
                         /\ booking_conv' =
                              Returns(booking_conv, u, STATE_BOOKING_CONFIRM, send.ok)
                    /\ UNCHANGED <<patients, patients_seq>>
               ELSE Raise(u)
    /\ UNCHANGED ADMIN_ID

\* booking_confirm, "if success:": the message after the save.
ConfirmMsg(success) == IF success THEN "booking_confirmed" ELSE "save_error"

\* booking_confirm taking every text for the confirmation.
IsConfirmation_any_text(t) == TRUE

\* booking_confirm: if update.message.text == "[check mark] Confirm"
IsConfirmation(t) == t = T_Confirm

\* MedicalBot.booking_confirm: the exact text of the Confirm button saves the
\* booking; any other text cancels.  Either way the dialogue ends once the
\* reply is delivered; a reply that raises leaves the dialogue in the Confirm
\* state, with the booking saved.
booking_confirm(u, t, sends) ==
    /\ Route(u, t) = "booking_confirm"
    /\ Handled(u, t, "booking_confirm")
    /\ IF IsConfirmation(t)
       THEN IF /\ HasKey(user_data[u], "booking")
               /\ {"name", "phone", "branch", "date"} \subseteq DOMAIN user_data[u]["booking"]
            THEN LET booking == user_data[u]["booking"]
                     saved == add_patient(patients, patients_seq, u, booking["name"],
                                  booking["phone"], booking["branch"], booking["date"],
                                  elapsed)
                 IN \E success \in BOOLEAN, send \in sends :
                      /\ db_log' = <<DbOp("add_patient", success)>>
                      /\ IF success
                         THEN /\ patients' = saved.rows
                              /\ patients_seq' = saved.seq
                         ELSE UNCHANGED <<patients, patients_seq>>
                      /\ Reply(u, ConfirmMsg(success), 0, send)
                      /\ booking_conv' = Returns(booking_conv, u, END, send.ok)
            ELSE Raise(u) /\ db_log' = <<>>
       ELSE /\ db_log' = <<>>
            /\ \E send \in sends :
                 /\ Reply(u, "booking_cancelled", 0, send)
                 /\ booking_conv' = Returns(booking_conv, u, END, send.ok)
            /\ UNCHANGED <<patients, patients_seq>>
    /\ UNCHANGED <<ADMIN_ID, user_data>>

\* The fallback of the booking dialogue, lambda u, c: ConversationHandler.END.
\* Every state has a filters.TEXT handler, which BookingRoute tries first, so
\* no text reaches it; if one did, awaiting the int the lambda returns would
\* raise TypeError and the dialogue would keep its state.
booking_fallback(u, t) ==
    /\ Route(u, t) = "booking_fallback"
    /\ Handled(u, t, "booking_fallback")
    /\ db_log' = <<>>
    /\ Raise(u)
    /\ UNCHANGED <<ADMIN_ID, user_data>>

\* A text no handler accepts is dropped.
unhandled(u, t) ==
    /\ Route(u, t) = "unhandled"
    /\ Handled(u, t, "unhandled")
    /\ db_log' = <<>>
    /\ Send(u, <<>>)
    /\ UNCHANGED <<ADMIN_ID, patients, patients_seq, booking_conv, user_data>>

\* ================================================================ HakeemBot
\* src/medical_bot_complete.py.  The application is built without
\* concurrent_updates, so an update is handled to its end before the next one
\* is taken: hk holds the update being handled and where its handling stands.

T_AskHakeem == <<"U+1F4AC", " ", "U+0627", "U+0633", "U+0623", "U+0644", " ", "U+062D", "U+0643", "U+064A", "U+0645">>
T_Status == <<"U+1F4CA", " ", "U+0627", "U+0644", "U+062D", "U+0627", "U+0644", "U+0629">>
T_HelpAr == <<"U+2753", " ", "U+0627", "U+0644", "U+0645", "U+0633", "U+0627", "U+0639", "U+062F", "U+0629">>
\* A text of white space only.
T_Blank == <<" ", "U+00A0", "\n">>
T_Question == <<"W", "h", "a", "t", " ", "i", "s", " ", "G", "E", "R", "D", "?">>
TruncationMark == <<"\n", "\n", ".", ".", ".", " ", "(", "U+062A", "U+0645", " ", "U+0642", "U+0635", " ", "U+0627", "U+0644", "U+0646", "U+0635", ")">>

\* The longest reply handle_message sends untruncated.
HakeemReplyLimit == 2000

\* What the providers may answer with.
GroqAnswer == <<"g", "r", "o", "q", " ", "s", "a", "y", "s">>
GeminiAnswer == <<"g", "e", "m", "i", "n", "i", " ", "s", "a", "y", "s">>

Whitespace == {
    "\t", "\n", "U+000B", "U+000C", "\r", "U+001C", "U+001D", "U+001E", "U+001F",
    " ", "U+0085", "U+00A0", "U+1680",
    "U+2000", "U+2001", "U+2002", "U+2003", "U+2004", "U+2005", "U+2006", "U+2007",
    "U+2008", "U+2009", "U+200A", "U+2028", "U+2029", "U+202F", "U+205F", "U+3000" }
RECURSIVE LStrip(_)
LStrip(t) == IF t # <<>> /\ Head(t) \in Whitespace THEN LStrip(Tail(t)) ELSE t
RECURSIVE RStrip(_)
RStrip(t) == IF t # <<>> /\ t[Len(t)] \in Whitespace
             THEN RStrip(SubSeq(t, 1, Len(t) - 1)) ELSE t
\* str.strip()
Strip(t) == RStrip(LStrip(t))

\* filters.COMMAND: the text opens with a bot command.
FilterCOMMAND(t) == CommandEntity(t) > 0

\* main(): the handlers in the order they are added, each with its callback.
HkHandlers == <<
    [filter |-> "command", arg |-> <<"s","t","a","r","t">>, callback |-> "start_command"],
    [filter |-> "command", arg |-> <<"h","e","l","p">>, callback |-> "help_command"],
    [filter |-> "command", arg |-> <<"s","t","a","t","u","s">>, callback |-> "status_command"],
    [filter |-> "command", arg |-> <<"p","r","o","f","i","l","e">>, callback |-> "profile_command"],
    [filter |-> "regex", arg |-> T_AskHakeem, callback |-> "handle_message"],
    [filter |-> "regex", arg |-> T_Status, callback |-> "status_command"],
    [filter |-> "regex", arg |-> T_HelpAr, callback |-> "help_command"],
    [filter |-> "text_not_command", arg |-> <<>>, callback |-> "handle_message"] >>

\* Whether a handler's filter accepts a text.
HkAccepts(h, t) ==
    IF h.filter = "command" THEN CommandOf(t) = h.arg
    ELSE IF h.filter = "regex" THEN RegexFull(h.arg, t)
    ELSE FilterTEXT(t) /\ ~FilterCOMMAND(t)

\* Dispatch taking the handler added last among those that accept.
HkRegistration_last_match(t) ==
    IF \E i \in 1..Len(HkHandlers) : HkAccepts(HkHandlers[i], t)
    THEN CHOOSE i \in 1..Len(HkHandlers) :
            /\ HkAccepts(HkHandlers[i], t)
            /\ \A j \in (i + 1)..Len(HkHandlers) : ~HkAccepts(HkHandlers[j], t)
    ELSE 0

\* Application.process_update within one group: the first handler, in the
\* order of addition, whose filter accepts the update; 0 when none does.
HkRegistration(t) ==
    IF \E i \in 1..Len(HkHandlers) : HkAccepts(HkHandlers[i], t)
    THEN CHOOSE i \in 1..Len(HkHandlers) :
            /\ HkAccepts(HkHandlers[i], t)
            /\ \A j \in 1..(i - 1) : ~HkAccepts(HkHandlers[j], t)
    ELSE 0

\* The callback an update is dispatched to.
HkRoute(t) ==
    IF HkRegistration(t) = 0 THEN "unhandled"
    ELSE HkHandlers[HkRegistration(t)].callback

\* The next id of a table with INTEGER PRIMARY KEY: one past the largest.
NextId(rows) == IF rows = {} THEN 1
                ELSE 1 + (CHOOSE m \in {r.id : r \in rows} :
                            \A r \in rows : r.id <= m)

\* HakeemDatabase.add_user: INSERT OR REPLACE on the UNIQUE telegram_id.
add_user(rows, user_id, name) ==
    {r \in rows : r.telegram_id # user_id}
        \cup {[id |-> NextId(rows), telegram_id |-> user_id, first_name |-> name]}

\* HakeemDatabase.save_chat: INSERT INTO chats.
save_chat(rows, user_id, msg, response, engine) ==
    rows \cup {[id |-> NextId(rows), telegram_id |-> user_id, user_message |-> msg,
                bot_response |-> response, engine |-> engine]}

\* One thing done while an update is handled: ok tells whether it succeeded,
\* val is the text it carried or produced (None when there is none).
Ev(ev, ok, val) == [ev |-> ev, ok |-> ok, val |-> val]

\* A provider's answer of n characters.
LongAnswer(n) == [i \in 1..n |-> "x"]

\* What a provider call may meet once the request is sent.
HttpOutcomes == {"200", "200_empty_text", "200_no_candidates", "200_bad_body",
                 "http_error", "timeout", "error"}
\* The 200 replies whose text is as long as the reply limit, and one longer.
LongOutcomes == {"200_at_limit", "200_over_limit"}

\* _groq_response, after the request: choices[0].message.content of a 200
\* reply, None for everything else.
GroqResult(outcome) ==
    IF outcome = "200" THEN Some(GroqAnswer)
    ELSE IF outcome = "200_empty_text" THEN Some(<<>>)
    ELSE IF outcome = "200_at_limit" THEN Some(LongAnswer(HakeemReplyLimit))
    ELSE IF outcome = "200_over_limit" THEN Some(LongAnswer(HakeemReplyLimit + 1))
    ELSE None

\* _gemini_response, after the request: the first candidate's text of a 200
\* reply that has candidates, None for everything else.
GeminiResult(outcome) ==
    IF outcome = "200" THEN Some(GeminiAnswer)
    ELSE IF outcome = "200_empty_text" THEN Some(<<>>)
    ELSE IF outcome = "200_at_limit" THEN Some(LongAnswer(HakeemReplyLimit))
    ELSE IF outcome = "200_over_limit" THEN Some(LongAnswer(HakeemReplyLimit + 1))
    ELSE None

\* respond calling Gemini whatever Groq returned.
FallsBackToGemini_always(groq_result) == TRUE

\* MedicalEngine.respond, "if response:" after the Groq call: whether the
\* Gemini call is made.
FallsBackToGemini(groq_result) == ~Truthy(groq_result)

\* MedicalEngine.respond: the label returned with Groq's text.
GroqLabel == "Groq"
\* respond labelling Gemini's text with the first provider's name.
GeminiReturn_labelled_groq(gemini_result) ==
    IF Truthy(gemini_result)
    THEN [response |-> gemini_result, engine_used |-> "Groq"]
    ELSE [response |-> None, engine_used |-> "None"]

\* MedicalEngine.respond: what is returned after the Gemini call.
GeminiReturn(gemini_result) ==
    IF Truthy(gemini_result)
    THEN [response |-> gemini_result, engine_used |-> "Gemini"]
    ELSE [response |-> None, engine_used |-> "None"]

\* A reply sent outside every try of its callback: when the send raises,
\* error_handler sends the error text, a send of its own whose failure is
\* swallowed.
CommandReply(kind, send_ok, error_ok) ==
    <<Ev(kind, send_ok, None)>>
        \o (IF send_ok THEN <<>> ELSE <<Ev("send_error_response", error_ok, None)>>)

\* HakeemBot.handle_message up to the call of engine.respond.
HandleMessage(u, t) ==
    /\ hk_proc.pc = "running"
    /\ hk.pc \in {"idle", "done"}
    /\ HkRoute(t) = "handle_message"
    /\ \E db_ok \in BOOLEAN, send_ok \in BOOLEAN, error_ok \in BOOLEAN :
         /\ hk_users' = IF db_ok THEN add_user(hk_users, u, T_Al) ELSE hk_users
         /\ IF Strip(t) = <<>>
            THEN /\ hk' = [HkIdle EXCEPT !.pc = "done", !.user = u, !.text = t,
                                         !.handler = HkRegistration(t)]
                 /\ hk_log' = <<Ev("add_user", db_ok, None)>>
                                \o CommandReply("send_empty_input", send_ok, error_ok)
            ELSE /\ error_ok
                 /\ hk' = [HkIdle EXCEPT !.pc = "groq", !.user = u, !.text = t,
                                         !.thinking_msg = send_ok,
                                         !.handler = HkRegistration(t)]
                 /\ hk_log' = <<Ev("add_user", db_ok, None),
                                Ev("send_thinking", send_ok, None)>>
    /\ UNCHANGED <<main_vars, chat_vars, proc_vars, GROQ_API_KEY, GEMINI_API_KEY, hk_chats>>

\* Application._update_fetcher (concurrent_updates is off by default): once
\* the callback of the previous update has returned, the next update is taken
\* and given to its callback.  It is the update at the head of the queue, or,
\* when none is waiting, one that arrives and is taken at once.
HkTakes(u, t) ==
    \/ /\ update_queue = <<>>
       /\ budget > 0
       /\ budget' = budget - 1
       /\ UNCHANGED update_queue
    \/ /\ update_queue # <<>>
       /\ Head(update_queue) = [user |-> u, text |-> t]
       /\ update_queue' = Tail(update_queue)
       /\ UNCHANGED budget

\* HakeemBot.handle_message entered for the update that is taken.
hk_handle_message(u, t) ==
    /\ HkTakes(u, t)
    /\ HandleMessage(u, t)

\* An update equal to one that is waiting is dropped.
Enqueue_dedup(queue, update) ==
    IF \E i \in 1..Len(queue) : queue[i] = update THEN queue ELSE Append(queue, update)

\* Application.update_queue.put(update), done by the Updater for every update
\* it fetches.
Enqueue(queue, update) == Append(queue, update)

\* The Updater receives a text while the application may be busy with an
\* earlier update: the text waits in the queue, the handler that is running
\* goes on.
hk_receive(u, t) ==
    /\ hk_proc.pc = "running"
    /\ budget > 0
    /\ budget' = budget - 1
    /\ update_queue' = Enqueue(update_queue, [user |-> u, text |-> t])
    /\ UNCHANGED <<main_vars, chat_vars, proc_vars, GROQ_API_KEY, GEMINI_API_KEY,
                   hk_users, hk_chats, hk, hk_log>>

\* HakeemDatabase.get_user_count and get_chat_count: SELECT COUNT(*), 0 on a
\* storage error.
get_user_count(rows, db_ok) == IF db_ok THEN Cardinality(rows) ELSE 0
get_chat_count(rows, db_ok) == IF db_ok THEN Cardinality(rows) ELSE 0


\* The start of every callback but handle_message: the update is taken and
\* handled to its end in one step.
HkCommand(u, t, callback) ==
    /\ hk_proc.pc = "running"
    /\ hk.pc \in {"idle", "done"}
    /\ HkTakes(u, t)
    /\ HkRoute(t) = callback
    /\ hk' = [HkIdle EXCEPT !.pc = "done", !.user = u, !.text = t,
                            !.handler = HkRegistration(t)]
    /\ UNCHANGED <<main_vars, chat_vars, proc_vars, GROQ_API_KEY, GEMINI_API_KEY, hk_chats>>

\* HakeemBot.start_command
hk_start_command(u, t) ==
    /\ HkCommand(u, t, "start_command")
    /\ \E db_ok \in BOOLEAN, send_ok \in BOOLEAN, error_ok \in BOOLEAN :
         /\ hk_users' = IF db_ok THEN add_user(hk_users, u, T_Al) ELSE hk_users
         /\ hk_log' = <<Ev("add_user", db_ok, None)>>
                          \o CommandReply("send_welcome", send_ok, error_ok)

\* HakeemBot.help_command
hk_help_command(u, t) ==
    /\ HkCommand(u, t, "help_command")
    /\ \E send_ok \in BOOLEAN, error_ok \in BOOLEAN :
         hk_log' = CommandReply("send_help", send_ok, error_ok)
    /\ UNCHANGED hk_users

\* timedelta.seconds: the seconds of the day begun last, the whole days
\* being kept apart in timedelta.days.
SecondsPerDay == 86400
TimedeltaSeconds(total) == total % SecondsPerDay

\* status_command: hours = uptime.seconds // 3600
UptimeHours(total) == TimedeltaSeconds(total) \div 3600

\* status_command: minutes = (uptime.seconds % 3600) // 60
UptimeMinutes(total) == (TimedeltaSeconds(total) % 3600) \div 60

\* status_command, the line of the message f"{hours}<seen> {minutes}<dal>"
UptimeText(hours, minutes) ==
    Str(hours) \o <<"U+0633", " ">> \o Str(minutes) \o <<"U+062F">>

\* Time passing while the process runs, by steps of 29 minutes.
TickSeconds == 29 * 60
tick(max_ticks) ==
    /\ elapsed + TickSeconds <= max_ticks * TickSeconds
    /\ elapsed' = elapsed + TickSeconds
    /\ UNCHANGED <<main_vars, chat_vars, hakeem_vars, TELEGRAM_TOKEN, main_proc,
                   hk_proc, boot_log, budget>>

\* HakeemBot.status_command
hk_status_command(u, t) ==
    /\ HkCommand(u, t, "status_command")
    /\ \E users_ok \in BOOLEAN, chats_ok \in BOOLEAN, send_ok \in BOOLEAN,
          error_ok \in BOOLEAN :
         hk_log' = <<Ev("uptime", TRUE,
                        Some(UptimeText(UptimeHours(elapsed), UptimeMinutes(elapsed)))),
                     Ev("get_user_count", users_ok,
                        Some(Str(get_user_count(hk_users, users_ok)))),
                     Ev("get_chat_count", chats_ok,
                        Some(Str(get_chat_count(hk_chats, chats_ok))))>>
                   \o CommandReply("send_status", send_ok, error_ok)
    /\ UNCHANGED hk_users

\* HakeemBot.profile_command
hk_profile_command(u, t) ==
    /\ HkCommand(u, t, "profile_command")
    /\ \E send_ok \in BOOLEAN, error_ok \in BOOLEAN :
         hk_log' = CommandReply("send_profile", send_ok, error_ok)
    /\ UNCHANGED hk_users

\* An update no handler accepts is dropped.
hk_unhandled(u, t) ==
    /\ HkCommand(u, t, "unhandled")
    /\ hk_log' = <<>>
    /\ UNCHANGED hk_users

\* Application.process_update: the update goes to the callback of the first
\* handler that accepts it, and is dropped when none does.
HkDispatch(u, t) ==
    \/ hk_start_command(u, t)
    \/ hk_help_command(u, t)
    \/ hk_status_command(u, t)
    \/ hk_profile_command(u, t)
    \/ hk_handle_message(u, t)
    \/ hk_unhandled(u, t)

\* The update that has waited longest is taken from the queue once the
\* callback of the previous one has returned.
hk_next_update ==
    /\ update_queue # <<>>
    /\ HkDispatch(Head(update_queue).user, Head(update_queue).text)

\* MedicalEngine.respond, first half: _groq_response and the test of its
\* result.
hk_groq_response(outcomes) ==
    /\ hk.pc = "groq"
    /\ IF ~Truthy(GROQ_API_KEY)
       THEN /\ hk_log' = hk_log \o <<Ev("groq_call", TRUE, None),
                                     Ev("groq_return", FALSE, None)>>
            /\ hk' = [hk EXCEPT !.pc = IF FallsBackToGemini(None)
                                       THEN "gemini" ELSE "reply",
                                !.engine_used = GroqLabel]
       ELSE \E typing_ok \in BOOLEAN, outcome \in outcomes \ {"200_no_candidates"} :
              LET result == GroqResult(outcome) IN
              /\ hk_log' = hk_log \o <<Ev("groq_call", TRUE, None),
                                       Ev("typing", typing_ok, None),
                                       Ev("groq_http", outcome \in {"200"} \cup LongOutcomes, None),
                                       Ev("groq_return", Truthy(result), result)>>
              /\ hk' = [hk EXCEPT !.pc = IF FallsBackToGemini(result)
                                         THEN "gemini" ELSE "reply",
                                  !.response = result,
                                  !.engine_used = GroqLabel]
    /\ UNCHANGED <<main_vars, chat_vars, proc_vars, update_queue, GROQ_API_KEY, GEMINI_API_KEY, hk_users, hk_chats, budget>>

\* MedicalEngine.respond, second half: _gemini_response and what respond
\* returns after it.
hk_gemini_response(outcomes) ==
    /\ hk.pc = "gemini"
    /\ IF ~Truthy(GEMINI_API_KEY)
       THEN /\ hk_log' = hk_log \o <<Ev("gemini_call", TRUE, None),
                                     Ev("gemini_return", FALSE, None)>>
            /\ hk' = [hk EXCEPT !.pc = "reply",
                                !.response = GeminiReturn(None).response,
                                !.engine_used = GeminiReturn(None).engine_used]
       ELSE \E typing_ok \in BOOLEAN, outcome \in outcomes :
              LET result == GeminiResult(outcome) IN
              /\ hk_log' = hk_log \o <<Ev("gemini_call", TRUE, None),
                                       Ev("typing", typing_ok, None),
                                       Ev("gemini_http", outcome \in {"200"} \cup LongOutcomes, None),
                                       Ev("gemini_return", Truthy(result), result)>>
              /\ hk' = [hk EXCEPT !.pc = "reply",
                                  !.response = GeminiReturn(result).response,
                                  !.engine_used = GeminiReturn(result).engine_used]
    /\ UNCHANGED <<main_vars, chat_vars, proc_vars, update_queue, GROQ_API_KEY, GEMINI_API_KEY, hk_users, hk_chats, budget>>

\* response[:2000], with the mark appended to a longer response.
Truncate(response) ==
    IF Len(response) > HakeemReplyLimit
    THEN SubSeq(response, 1, HakeemReplyLimit) \o TruncationMark
    ELSE response

\* handle_message without the test of the response.
HasResponse_always(response) == TRUE

\* handle_message, "if response:": whether the answer is saved and sent.
HasResponse(response) == Truthy(response)

\* handle_message leaving the placeholder in the chat.
DeleteThinking_skipped(thinking_msg, delete_ok) == <<>>

\* thinking_msg.delete(), when the placeholder was sent; a failure is
\* swallowed.
DeleteThinking(thinking_msg, delete_ok) ==
    IF thinking_msg THEN <<Ev("delete_thinking", delete_ok, None)>> ELSE <<>>

\* The heading handle_message puts before the answer.
AnswerHeading == <<"U+1F916", " ", "*", "*", "U+062D", "U+0643", "U+064A", "U+0645", " ",
                   "U+064A", "U+0642", "U+0648", "U+0644", ":", "*", "*", "\n", "\n">>

\* "except Exception" of handle_message, entered when the final send raises:
\* the placeholder's deletion is tried once more and the error text is
\* sent; if that send raises too, error_handler sends the error text. Each
\* is a call of its own, with its own outcome.
SendFailed(thinking_msg, delete_ok, error_ok, handler_ok) ==
    DeleteThinking(thinking_msg, delete_ok)
        \o CommandReply("send_error_response", error_ok, handler_ok)

\* HakeemBot.handle_message after engine.respond returned.
hk_reply ==
    /\ hk.pc = "reply"
    /\ \E db_ok \in BOOLEAN, delete_ok \in BOOLEAN, send_ok \in BOOLEAN,
          delete_again_ok \in BOOLEAN, error_ok \in BOOLEAN, handler_ok \in BOOLEAN :
         \* the outcome of a call that is not made is left fixed
         /\ send_ok => (delete_again_ok /\ error_ok)
         /\ (send_ok \/ error_ok) => handler_ok
         /\ hk.thinking_msg \/ (delete_ok /\ delete_again_ok)
         /\ HasResponse(hk.response) \/ db_ok
         /\ IF HasResponse(hk.response)
            THEN /\ hk_chats' = IF db_ok
                                THEN save_chat(hk_chats, hk.user, hk.text,
                                               hk.response.text, hk.engine_used)
                                ELSE hk_chats
                 /\ hk_log' = hk_log
                       \o <<Ev("save_chat", db_ok, Some(hk.engine_used))>>
                       \o DeleteThinking(hk.thinking_msg, delete_ok)
                       \o <<Ev("send_answer", send_ok,
                                Some(AnswerHeading \o Truncate(hk.response.text)))>>
                       \o (IF send_ok THEN <<>>
                           ELSE SendFailed(hk.thinking_msg, delete_again_ok,
                                           error_ok, handler_ok))
            ELSE /\ hk_chats' = hk_chats
                 /\ hk_log' = hk_log
                       \o DeleteThinking(hk.thinking_msg, delete_ok)
                       \o <<Ev("send_api_error", send_ok, None)>>
                       \o (IF send_ok THEN <<>>
                           ELSE SendFailed(hk.thinking_msg, delete_again_ok,
                                           error_ok, handler_ok))
    /\ hk' = [hk EXCEPT !.pc = "done"]
    /\ UNCHANGED <<main_vars, chat_vars, proc_vars, update_queue, GROQ_API_KEY, GEMINI_API_KEY, hk_users, budget>>

\* ============================================================ chat dialogue
\* src/main.py: MedicalBot.chat_start, select_chat_mode and handle_chat, with
\* GroqAPI.chat and GeminiAPI.analyze.

\* The longest reply handle_chat sends untruncated.
ChatReplyLimit == 1000
ChatTruncationMark == <<"\n", "\n", ".", ".", ".", "(", "t", "r", "u", "n", "c", "a", "t", "e", "d", ")">>
\* What the two clients return when the request times out.
GroqTimeoutText ==
    << "S", "o", "r", "r", "y", ",", " ", "t", "h", "e", " ", "r", "e", "s",
       "p", "o", "n", "s", "e", " ", "i", "s", " ", "t", "a", "k", "i", "n",
       "g", " ", "t", "o", "o", " ", "l", "o", "n", "g", ".", " ", "P", "l",
       "e", "a", "s", "e", " ", "t", "r", "y", " ", "a", "g", "a", "i", "n",
       "." >>
GeminiTimeoutText ==
    << "A", "n", "a", "l", "y", "s", "i", "s", " ", "i", "s", " ", "t", "a",
       "k", "i", "n", "g", " ", "t", "o", "o", " ", "l", "o", "n", "g", ".",
       " ", "P", "l", "e", "a", "s", "e", " ", "t", "r", "y", " ", "a", "g",
       "a", "i", "n", "." >>
W_Groq == <<"G", "r", "o", "q">>
W_Gemini == <<"G", "e", "m", "i", "n", "i">>

\* "[robot] **Groq Response**:\n\n", the heading of an answer.
ChatHeading(api_used) ==
    <<"U+1F916", " ", "*", "*">> 
        \o (IF api_used = "Groq" THEN W_Groq ELSE W_Gemini)
        \o <<" ", "R", "e", "s", "p", "o", "n", "s", "e", "*", "*", ":", "\n", "\n">>

\* "sub in t" of Python.
Contains(sub, t) ==
    \E i \in 1..(Len(t) - Len(sub) + 1) : SubSeq(t, i, i + Len(sub) - 1) = sub

\* What a request of handle_chat may meet.
ChatOutcomes == {"200", "200_empty_text", "200_at_limit", "200_over_limit",
                 "200_no_candidates", "http_error", "timeout", "error"}

\* The outcomes in which the provider answered with status 200.
OkOutcomes == {"200", "200_empty_text", "200_at_limit", "200_over_limit",
               "200_no_candidates"}

\* GroqAPI.chat returning None on a timeout as on every other exception.
GroqChat_timeout_none(outcome) ==
    IF outcome = "200" THEN Some(GroqAnswer)
    ELSE IF outcome = "200_empty_text" THEN Some(<<>>)
    ELSE IF outcome = "200_at_limit" THEN Some(LongAnswer(ChatReplyLimit))
    ELSE IF outcome = "200_over_limit" THEN Some(LongAnswer(ChatReplyLimit + 1))
    ELSE None

\* GroqAPI.chat: the content of a 200 reply, an apology on a timeout, None
\* on any other exception.
GroqChat(outcome) ==
    IF outcome = "200" THEN Some(GroqAnswer)
    ELSE IF outcome = "200_empty_text" THEN Some(<<>>)
    ELSE IF outcome = "200_at_limit" THEN Some(LongAnswer(ChatReplyLimit))
    ELSE IF outcome = "200_over_limit" THEN Some(LongAnswer(ChatReplyLimit + 1))
    ELSE IF outcome = "timeout" THEN Some(GroqTimeoutText)
    ELSE None

\* GeminiAPI.analyze: the first candidate's text of a 200 reply, an apology
\* on a timeout, None without candidates and on any other exception.
GeminiAnalyze(outcome) ==
    IF outcome = "200" THEN Some(GeminiAnswer)
    ELSE IF outcome = "200_empty_text" THEN Some(<<>>)
    ELSE IF outcome = "200_at_limit" THEN Some(LongAnswer(ChatReplyLimit))
    ELSE IF outcome = "200_over_limit" THEN Some(LongAnswer(ChatReplyLimit + 1))
    ELSE IF outcome = "timeout" THEN Some(GeminiTimeoutText)
    ELSE None

\* PatientDatabase.save_chat: INSERT INTO chat_history.
patient_save_chat(rows, telegram_id, message, response, api_used) ==
    rows \cup {[id |-> NextId(rows), telegram_id |-> telegram_id, message |-> message,
                response |-> response, api_used |-> api_used]}

\* MedicalBot.chat_start: the entry points of the chat dialogue, "Switch
\* Mode", and the Medical Analysis button, which is registered outside the
\* dialogue and so leaves its state alone.
chat_start(u, t, sends) ==
    LET h == Route(u, t)
    IN /\ h \in {"chat_start", "chat_start_button"}
       /\ Handled(u, t, h)
       /\ db_log' = <<>>
       /\ \E send \in sends :
            /\ Reply(u, "choose_ai", 0, send)
            /\ IF h = "chat_start"
               THEN /\ chat_conv' = Returns(chat_conv, u, STATE_CHAT_MODE, send.ok)
                    /\ UNCHANGED <<chat_history, chat_log>>
               ELSE TRUE
       /\ UNCHANGED <<ADMIN_ID, patients, patients_seq, booking_conv, user_data>>

\* select_chat_mode leaving the session as it was.
SetChatMode_skipped(u, mode) == UNCHANGED user_data

\* context.user_data['chat_mode'] = mode
SetChatMode(u, mode) == user_data' = [user_data EXCEPT ![u] = SetKey(@, "chat_mode", mode)]

\* MedicalBot.select_chat_mode: a text naming neither provider ends the
\* dialogue without a reply.
select_chat_mode(u, t, sends) ==
    /\ Route(u, t) = "select_chat_mode"
    /\ Handled(u, t, "select_chat_mode")
    /\ db_log' = <<>>
    /\ IF Contains(W_Groq, t)
       THEN /\ SetChatMode(u, "groq")
            /\ \E send \in sends :
                 /\ Reply(u, "groq_selected", 0, send)
                 /\ chat_conv' = Returns(chat_conv, u, STATE_CHAT_INPUT, send.ok)
       ELSE IF Contains(W_Gemini, t)
       THEN /\ SetChatMode(u, "gemini")
            /\ \E send \in sends :
                 /\ Reply(u, "gemini_selected", 0, send)
                 /\ chat_conv' = Returns(chat_conv, u, STATE_CHAT_INPUT, send.ok)
       ELSE /\ chat_conv' = [chat_conv EXCEPT ![u] = END]
            /\ Send(u, <<>>)
            /\ UNCHANGED user_data
    /\ UNCHANGED <<chat_history, chat_log>>
    /\ UNCHANGED <<ADMIN_ID, patients, patients_seq, booking_conv>>

\* context.user_data.get('chat_mode', 'groq')
ChatMode(d) == IF HasKey(d, "chat_mode") THEN d["chat_mode"] ELSE "groq"

\* handle_chat saving every exchange.
ShouldSaveChat_always(patient) == TRUE

\* handle_chat, "if patient:": whether the exchange is written to chat_history.
ShouldSaveChat(patient) == patient # {}

\* handle_chat: response[:1000], and the mark after a longer response.
ChatTruncate(response) ==
    IF Len(response) > ChatReplyLimit
    THEN SubSeq(response, 1, ChatReplyLimit) \o ChatTruncationMark
    ELSE response

\* handle_chat: the message that carries the answer.
ChatReplyText(api_used, response) == ChatHeading(api_used) \o ChatTruncate(response)

\* What the reply_text calls of one handle_chat may meet: the answer or the
\* error reply (first_ok), the reply of the except branch (except_ok) when
\* that one raised, "What else would you like to know?" (what_else_ok) when
\* one of the two was delivered, and the reply of error_handler (error_ok)
\* when an exception left the handler.
ChatSendOutcomes ==
    {s \in [first_ok : BOOLEAN, except_ok : BOOLEAN, what_else_ok : BOOLEAN,
            error_ok : BOOLEAN] :
        /\ s.first_ok => s.except_ok
        /\ ~s.except_ok => s.what_else_ok}

\* Every reply_text call of handle_chat delivered.
ChatDelivers ==
    {[first_ok |-> TRUE, except_ok |-> TRUE, what_else_ok |-> TRUE, error_ok |-> TRUE]}

\* The reply_text calls of handle_chat after the provider's call: the answer
\* or the error reply (first) inside the try; when that call raises, the
\* except branch sends the text of the exception; then "What else would you
\* like to know?".  An exception raised by the except branch or by the last
\* call leaves the handler, and error_handler runs.
ChatSends(first, send) ==
    <<Sent(first, 0, send.first_ok)>>
    \o (IF send.first_ok THEN <<>> ELSE <<Sent("except_error", 0, send.except_ok)>>)
    \o (IF send.first_ok \/ send.except_ok
        THEN <<Sent("what_else", 0, send.what_else_ok)>>
             \o (IF send.what_else_ok THEN <<>> ELSE error_handler(send.error_ok))
        ELSE error_handler(send.error_ok))

\* The entry of chat_log for one reply_text call of handle_chat.
SendEv(sent, text) ==
    Ev(CASE sent.kind = "answer" -> "send_answer"
         [] sent.kind = "no_response" -> "send_error"
         [] sent.kind = "except_error" -> "send_except_error"
         [] sent.kind = "what_else" -> "send_what_else",
       sent.ok, IF sent.kind = "answer" THEN text ELSE None)

\* The calls among sends that handle_chat made itself.
OwnSends(sends) == SelectSeq(sends, LAMBDA s : s.kind # "error")

\* handle_chat: what the provider of the user's chat_mode returns.
ChatResponse(u, outcome) ==
    IF ChatMode(user_data[u]) = "groq" THEN GroqChat(outcome) ELSE GeminiAnalyze(outcome)

\* The reply_text calls of one handle_chat and of the error_handler that
\* follows an exception: none of its own when send_action raised.
ChatReplies(typing_ok, answered, send) ==
    IF typing_ok
    THEN ChatSends(IF answered THEN "answer" ELSE "no_response", send)
    ELSE error_handler(send.error_ok)

\* What one handle_chat does, given the outcomes of its calls.
ChatHandled(u, t, outcome, typing_ok, db_ok, save_ok, sends) ==
    LET patient == get_patient(patients, u, db_ok)
        response == ChatResponse(u, outcome)
        api_used == IF ChatMode(user_data[u]) = "groq" THEN "Groq" ELSE "Gemini"
        call == IF ChatMode(user_data[u]) = "groq" THEN "groq_call" ELSE "gemini_call"
        saves == typing_ok /\ Truthy(response) /\ ShouldSaveChat(patient)
    IN /\ (~saves => save_ok)
       /\ db_log' = <<DbOp("get_patient", db_ok)>>
       /\ chat_history' =
            IF saves /\ save_ok
            THEN patient_save_chat(chat_history, u, t, response.text, api_used)
            ELSE chat_history
       /\ chat_log' =
            IF ~typing_ok THEN <<Ev("typing", FALSE, None)>>
            ELSE
            <<Ev("typing", TRUE, None), Ev(call, TRUE, response),
              Ev("request_outcome", outcome \in OkOutcomes, Some(<<outcome>>))>>
            \o (IF saves THEN <<Ev("save_chat", save_ok, None)>> ELSE <<>>)
            \o [i \in 1..Len(OwnSends(sends)) |->
                  SendEv(sends[i], Some(ChatReplyText(api_used, response.text)))]
       /\ Send(u, sends)
       /\ chat_conv' = Returns(chat_conv, u, STATE_CHAT_INPUT,
                               sends[Len(sends)] = Sent("what_else", 0, TRUE))

\* MedicalBot.handle_chat: one question, put to the provider of chat_mode.
\* send_action("typing") stands before the try: when it raises (typing_ok
\* false) the exception leaves the handler, error_handler runs and the
\* dialogue keeps its state.  The exchange is saved before the answer is
\* sent.
handle_chat(u, t, outcome, typing_ok, sends) ==
    /\ Route(u, t) = "handle_chat"
    /\ Handled(u, t, "handle_chat")
    /\ \E db_ok \in BOOLEAN, save_ok \in BOOLEAN, send \in sends :
         ChatHandled(u, t, outcome, typing_ok, db_ok, save_ok,
                     ChatReplies(typing_ok, Truthy(ChatResponse(u, outcome)), send))
    /\ UNCHANGED <<ADMIN_ID, patients, patients_seq, booking_conv, user_data>>

\* The fallback of the chat dialogue, reached by "Go Home" and "Exit Chat" in
\* STATE_CHAT_INPUT: lambda u, c: ConversationHandler.END.  The handler awaits
\* what its callback returns, and the lambda returns an int: the await raises
\* TypeError, the dialogue keeps its state and error_handler replies.
chat_fallback(u, t) ==
    /\ Route(u, t) = "chat_fallback"
    /\ Handled(u, t, "chat_fallback")
    /\ db_log' = <<>>
    /\ Raise(u)
    /\ UNCHANGED <<chat_conv, chat_history, chat_log>>
    /\ UNCHANGED <<ADMIN_ID, user_data>>
\* ================================================================== startup
\* The module-level validation of both programs, "if TELEGRAM_TOKEN:" and
\* "if not TELEGRAM_TOKEN:", which precedes every class and object.

\* Validation that lets every token through.
TokenSet_always(token) == TRUE

\* Whether the validation finds the token set.
TokenSet(token) == Truthy(token)

AllBuilt == {"db", "engine", "handlers"}

\* main.py from its first line to run_polling.  Without a token sys.exit(1).
\* Else main() calls MedicalBot(), whose PatientDatabase runs init_database:
\* an error there is logged and raised again, and nothing around MedicalBot()
\* catches it, so the interpreter ends with status 1.  Then create_handlers
\* registers the handlers, and an exception out of run_polling is answered
\* with sys.exit(1).
main_startup ==
    /\ main_proc.pc = "boot"
    /\ IF ~TokenSet(TELEGRAM_TOKEN)
       THEN /\ main_proc' = Exited(1, {})
            /\ boot_log' = [boot_log EXCEPT !.main = <<"token_missing">>]
       ELSE \E schema_ok \in BOOLEAN, polling_ok \in BOOLEAN :
              IF ~schema_ok
              THEN /\ main_proc' = Exited(1, {})
                   /\ boot_log' = [boot_log EXCEPT !.main = <<"schema_error">>]
              ELSE IF ~polling_ok
              THEN /\ main_proc' = Exited(1, AllBuilt)
                   /\ boot_log' = [boot_log EXCEPT !.main =
                         <<"schema_ok", "handlers_added", "polling_error">>]
              ELSE /\ main_proc' = Running
                   /\ boot_log' = [boot_log EXCEPT !.main =
                         <<"schema_ok", "handlers_added", "polling_started">>]
    /\ UNCHANGED <<main_vars, chat_vars, hakeem_vars, TELEGRAM_TOKEN, hk_proc, elapsed, budget>>

\* main.py stopped by the user: run_polling returns on the signal, or main()
\* catches KeyboardInterrupt; the process ends with status 0.
main_shutdown ==
    /\ main_proc.pc = "running"
    /\ main_proc' = Exited(0, main_proc.built)
    /\ boot_log' = [boot_log EXCEPT !.main = @ \o <<"interrupt">>]
    /\ UNCHANGED <<main_vars, chat_vars, hakeem_vars, TELEGRAM_TOKEN, hk_proc, elapsed, budget>>

\* main() going on to the handlers whatever verify_token returned.
ProceedsAfterVerify_always(verified) == TRUE

\* main(), "if not await verify_token(TELEGRAM_TOKEN): return".
ProceedsAfterVerify(verified) == verified

\* medical_bot_complete.py from its first line to the polling loop.  Without
\* a token sys.exit(1).  Else db = HakeemDatabase() runs init_database, which
\* logs an error and goes on, and engine is built.  main() returns when
\* verify_token fails, which ends the process with status 0.  Else the
\* handlers are added; an exception of initialize, start or start_polling is
\* caught and logged, and the clean-up of "finally" then either completes
\* (status 0) or raises in its turn because the updater never ran (status 1).
hk_startup ==
    /\ hk_proc.pc = "boot"
    /\ IF ~TokenSet(TELEGRAM_TOKEN)
       THEN /\ hk_proc' = Exited(1, {})
            /\ boot_log' = [boot_log EXCEPT !.hk = <<"token_missing">>]
       ELSE \E schema_ok \in BOOLEAN, verified \in BOOLEAN, started \in BOOLEAN :
              LET schema == IF schema_ok THEN <<"schema_ok">> ELSE <<"schema_error">>
              IN IF ~ProceedsAfterVerify(verified)
                 THEN /\ hk_proc' = Exited(0, {"db", "engine"})
                      /\ boot_log' = [boot_log EXCEPT !.hk =
                            schema \o <<"verify_failed">>]
                 ELSE IF ~started
                 THEN \E status \in {0, 1} :
                        /\ hk_proc' = Exited(status, AllBuilt)
                        /\ boot_log' = [boot_log EXCEPT !.hk =
                              schema \o <<IF verified THEN "verify_ok" ELSE "verify_failed",
                                          "handlers_added", "startup_error">>]
                 ELSE /\ hk_proc' = Running
                      /\ boot_log' = [boot_log EXCEPT !.hk =
                            schema \o <<IF verified THEN "verify_ok" ELSE "verify_failed",
                                        "handlers_added", "polling_started">>]
    /\ UNCHANGED <<main_vars, chat_vars, hakeem_vars, TELEGRAM_TOKEN, main_proc, elapsed, budget>>

\* medical_bot_complete.py stopped by the user: the clean-up of "finally"
\* runs and the entry point catches KeyboardInterrupt; status 0.
hk_shutdown ==
    /\ hk_proc.pc = "running"
    /\ hk_proc' = Exited(0, hk_proc.built)
    /\ boot_log' = [boot_log EXCEPT !.hk = @ \o <<"interrupt">>]
    /\ UNCHANGED <<main_vars, chat_vars, hakeem_vars, TELEGRAM_TOKEN, main_proc, elapsed, budget>>
\* -------------------------------------------------------------- initial state
\* The bot after construction.  patients.db outlives the process, so the
\* table may hold the rows of earlier runs.
AdminIds == { None, Some(<<>>), Some(<<"1">>), Some(<<"0", "1">>) }

Row1 == Row(1, 1, T_Al, T_Phone8, Lower(T_Cairo), T_ASAP, 0)
Row2 == Row(2, 2, T_Giza, T_Phone7, Lower(T_SHERBIN), T_ASAP, 0)
StoredRows == { {}, {Row1, Row2} }

InitMain(admins, stores) ==
    /\ ADMIN_ID \in admins
    /\ patients \in stores
    /\ patients_seq = Cardinality(patients)
    /\ booking_conv = [u \in Users |-> END]
    /\ user_data = [u \in Users |-> EmptyDict]
    /\ outbox = [u \in Users |-> [kind |-> "nothing", n |-> 0]]
    /\ reply_log = <<>>
    /\ db_log = <<>>
    /\ last = [user |-> 0, text |-> <<>>, handler |-> "none", state |-> END,
               chat_state |-> END]
    /\ chat_conv = [u \in Users |-> END]
    /\ chat_history = {}
    /\ chat_log = <<>>

\* HakeemBot after construction, with the two API keys of the environment.
InitHakeem(groq_keys, gemini_keys) ==
    /\ GROQ_API_KEY \in groq_keys
    /\ GEMINI_API_KEY \in gemini_keys
    /\ hk_users = {}
    /\ hk_chats = {}
    /\ hk = HkIdle
    /\ hk_log = <<>>
    /\ update_queue = <<>>

\* Both programs past their start, the token being set.
InitRunning ==
    /\ TELEGRAM_TOKEN = Some(<<"t">>)
    /\ main_proc = Running
    /\ hk_proc = Running
    /\ boot_log = [main |-> <<"schema_ok", "handlers_added", "polling_started">>,
                   hk |-> <<"schema_ok", "verify_ok", "handlers_added",
                            "polling_started">>]
    /\ elapsed = 0

InitWith(admins, stores, n) ==
    /\ InitMain(admins, stores)
    /\ InitHakeem({None}, {None})
    /\ InitRunning
    /\ budget = n

\* ---------------------------------------------------------- specifications
\* The booking dialogue of two users, on the texts of a whole booking; the
\* reply of booking_confirm may raise.
UpsertTexts == {T_BookAppointment, T_Al, T_Phone8b, T_Cairo, T_Confirm}
InitUpsert == InitWith({None}, {{}, {Row1}}, MaxMsgs)
NextUpsert ==
    \E u \in Users, t \in UpsertTexts :
        \/ book_appointment(u, t, Delivers)
        \/ booking_get_name(u, t, Delivers)
        \/ booking_get_phone(u, t, Delivers)
        \/ booking_get_branch(u, t, Delivers)
        \/ booking_get_date(u, t, Delivers)
        \/ booking_confirm(u, t, SendOutcomes)
        \/ unhandled(u, t)
SpecUpsert == InitUpsert /\ [][NextUpsert]_vars

\* The commands and buttons outside the dialogues; the reply of stats may
\* raise.
CommandTexts == {T_SlashStart, T_SlashHelp, T_SlashProfile, T_SlashStats,
                 T_MyProfile, T_Home, T_maybe}
MaxCommandMsgs == 4
InitCommands == InitWith(AdminIds, StoredRows, MaxCommandMsgs)
NextCommands ==
    \E u \in Users, t \in CommandTexts :
        \/ start(u, t, Delivers)
        \/ help_command(u, t, Delivers)
        \/ show_profile(u, t, Delivers)
        \/ stats(u, t, SendOutcomes)
        \/ unhandled(u, t)
SpecCommands == InitCommands /\ [][NextCommands]_vars

\* One user's dialogue on names and phone numbers of several lengths.
FieldTexts == {T_BookAppointment, T_A, T_Al, T_Phone7, T_Phone8, T_Phone8b,
               T_PhoneDashes, T_Cairo}
InitFields == InitWith({None}, {{}}, MaxMsgs)
NextFields ==
    \E u \in {1}, t \in FieldTexts :
        \/ book_appointment(u, t, Delivers)
        \/ booking_get_name(u, t, Delivers)
        \/ booking_get_phone(u, t, Delivers)
        \/ booking_get_branch(u, t, Delivers)
        \/ booking_get_date(u, t, Delivers)
        \/ booking_confirm(u, t, Delivers)
        \/ unhandled(u, t)
SpecFields == InitFields /\ [][NextFields]_vars

\* One user's dialogue on the words a user may answer the summary with.
ConfirmTexts == {T_BookAppointment, T_Cairo, T_Confirm, T_OK, T_ok, T_Tamam,
                 T_Check, T_no, T_Ilghaa, T_Cross, T_maybe}
InitConfirm == InitWith({None}, {{}}, MaxMsgs)
NextConfirm ==
    \E u \in {1}, t \in ConfirmTexts :
        \/ book_appointment(u, t, Delivers)
        \/ booking_get_name(u, t, Delivers)
        \/ booking_get_phone(u, t, Delivers)
        \/ booking_get_branch(u, t, Delivers)
        \/ booking_get_date(u, t, Delivers)
        \/ booking_confirm(u, t, Delivers)
        \/ unhandled(u, t)
SpecConfirm == InitConfirm /\ [][NextConfirm]_vars

\* One user's dialogue with the cancel inputs, from an empty store and from
\* a store that knows the user.
CancelTexts == {T_BookAppointment, T_Cancel, T_SlashCancel, T_Cairo, T_Confirm}
InitCancel == InitWith({None}, {{}, {Row1}}, MaxMsgs)
NextCancel ==
    \E u \in {1}, t \in CancelTexts :
        \/ book_appointment(u, t, Delivers)
        \/ booking_get_name(u, t, Delivers)
        \/ booking_get_phone(u, t, Delivers)
        \/ booking_get_branch(u, t, Delivers)
        \/ booking_get_date(u, t, Delivers)
        \/ booking_confirm(u, t, Delivers)
        \/ unhandled(u, t)
SpecCancel == InitCancel /\ [][NextCancel]_vars

\* HakeemBot's catch-all handler and its engine, under every combination of
\* present, empty and missing API keys, for the messages of one user.
ApiKeys == { None, Some(<<>>), Some(<<"k">>) }
HakeemTexts == {T_Question, T_AskHakeem}
InitHakeemBot ==
    /\ InitMain({None}, {{}})
    /\ InitHakeem(ApiKeys, ApiKeys)
    /\ InitRunning
    /\ budget = MaxUpdates
NextHakeem ==
    \/ \E t \in HakeemTexts : hk_handle_message(1, t)
    \/ \E outcome \in HttpOutcomes : hk_groq_response({outcome})
    \/ \E outcome \in HttpOutcomes : hk_gemini_response({outcome})
    \/ hk_reply
SpecHakeem == InitHakeemBot /\ [][NextHakeem]_vars

Spec == SpecUpsert

\* One user in the chat dialogue, known to the store or not, asking
\* questions under the outcomes of the provider request and of every reply.
MaxQuestionMsgs == 4
ChatTexts == {T_Chat, T_GroqFastChat, T_GeminiDeepAnalysis, T_Question, T_SwitchMode}
ShortOutcomes == {"200", "200_empty_text", "timeout", "error"}
InitChat == InitWith({None}, {{}, {Row1}}, MaxQuestionMsgs)
NextChat ==
    \E u \in {1}, t \in ChatTexts :
        \/ chat_start(u, t, Delivers)
        \/ select_chat_mode(u, t, Delivers)
        \/ \E outcome \in ShortOutcomes : handle_chat(u, t, outcome, TRUE, ChatSendOutcomes)
        \/ unhandled(u, t)
SpecChat == InitChat /\ [][NextChat]_vars

\* One user choosing and switching providers, where the reply to a choice
\* may raise.
InitChatMode == InitWith({None}, {{}}, MaxMsgs)
NextChatMode ==
    \E u \in {1}, t \in ChatTexts :
        \/ chat_start(u, t, SendOutcomes)
        \/ select_chat_mode(u, t, SendOutcomes)
        \/ \E outcome \in {"200", "error"} : handle_chat(u, t, outcome, TRUE, ChatDelivers)
        \/ unhandled(u, t)
SpecChatMode == InitChatMode /\ [][NextChatMode]_vars

\* One user in the chat dialogue with the exit keywords, the back option and
\* a text that is none of the options.
ChatExitTexts == {T_Chat, T_MedicalAnalysis, T_GroqFastChat, T_Question, T_GoHome,
                  T_ExitChat, T_Cancel, T_maybe}
InitChatExit == InitWith({None}, {{}}, MaxMsgs)
NextChatExit ==
    \E u \in {1}, t \in ChatExitTexts :
        \/ chat_start(u, t, Delivers)
        \/ select_chat_mode(u, t, Delivers)
        \/ \E outcome \in {"200", "error"} : handle_chat(u, t, outcome, TRUE, ChatDelivers)
        \/ chat_fallback(u, t)
        \/ unhandled(u, t)
SpecChatExit == InitChatExit /\ [][NextChatExit]_vars

\* One user who chats, books and chats again: long enough a run for a whole
\* booking between two questions.  The typing signal of a question may fail.
MaxChatMsgs == 9
ChatBookingTexts == {T_Chat, T_GroqFastChat, T_BookAppointment, T_Cairo, T_Confirm}
InitChatBooking == InitWith({None}, {{}}, MaxChatMsgs)
NextChatBooking ==
    \E u \in {1}, t \in ChatBookingTexts :
        \/ chat_start(u, t, Delivers)
        \/ select_chat_mode(u, t, Delivers)
        \/ \E outcome \in {"200", "error"}, typing_ok \in BOOLEAN : handle_chat(u, t, outcome, typing_ok, ChatDelivers)
        \/ book_appointment(u, t, Delivers)
        \/ booking_get_name(u, t, Delivers)
        \/ booking_get_phone(u, t, Delivers)
        \/ booking_get_branch(u, t, Delivers)
        \/ booking_get_date(u, t, Delivers)
        \/ booking_confirm(u, t, Delivers)
        \/ unhandled(u, t)
SpecChatBooking == InitChatBooking /\ [][NextChatBooking]_vars

\* Both bots answering one user, the providers returning texts as long as
\* the reply limit and one character longer.  The two programs share no
\* state, so MedicalBot's steps are taken while HakeemBot handles no update, and
\* HakeemBot handles one update.
MaxTruncMsgs == 4
TruncateTexts == {T_Chat, T_GroqFastChat, T_Question}
InitTruncate ==
    /\ InitMain({None}, {{}})
    /\ InitHakeem({Some(<<"k">>)}, {Some(<<"k">>)})
    /\ InitRunning
    /\ budget = MaxTruncMsgs
NextTruncate ==
    \/ \E u \in {1}, t \in TruncateTexts :
          \/ hk.pc \in {"idle", "done"} /\ chat_start(u, t, Delivers)
          \/ hk.pc \in {"idle", "done"} /\ select_chat_mode(u, t, Delivers)
          \/ \E outcome \in LongOutcomes :
                hk.pc \in {"idle", "done"} /\ handle_chat(u, t, outcome, TRUE, ChatDelivers)
          \/ hk.pc = "idle" /\ hk_handle_message(u, t)
    \/ \E outcome \in LongOutcomes \cup {"error"} : hk_groq_response({outcome})
    \/ \E outcome \in LongOutcomes \cup {"error"} : hk_gemini_response({outcome})
    \/ hk_reply
SpecTruncate == InitTruncate /\ [][NextTruncate]_vars

\* Both programs from their first line, with the token missing, empty or
\* set, then one user's first messages.
Tokens == { None, Some(<<>>), Some(<<"t">>) }
StartupTexts == {T_SlashStart, T_Chat, T_Question}
InitStartup ==
    /\ InitMain({None}, {{}, {Row1}})
    /\ InitHakeem({None, Some(<<"k">>)}, {None})
    /\ TELEGRAM_TOKEN \in Tokens
    /\ main_proc = Booting
    /\ hk_proc = Booting
    /\ boot_log = [main |-> <<>>, hk |-> <<>>]
    /\ elapsed = 0
    /\ budget = MaxUpdates
NextStartup ==
    \/ main_startup
    \/ hk_startup
    \/ main_shutdown
    \/ hk_shutdown
    \/ \E u \in {1}, t \in StartupTexts :
          \/ start(u, t, Delivers)
          \/ chat_start(u, t, Delivers)
          \/ unhandled(u, t)
          \/ hk_handle_message(u, t)
    \/ \E outcome \in {"200", "error"} : hk_groq_response({outcome})
    \/ \E outcome \in {"200", "error"} : hk_gemini_response({outcome})
    \/ hk_reply
SpecStartup == InitStartup /\ [][NextStartup]_vars

\* One user in the booking dialogue, with the branch names in several
\* spellings; every reply may raise.
BranchTexts == {T_BookAppointment, T_Cairo, T_CAIRO, T_sherbin, T_SHERBIN, T_Giza}
InitBranch == InitWith({None}, {{}}, MaxMsgs)
NextBranch ==
    \E u \in {1}, t \in BranchTexts :
        \/ book_appointment(u, t, SendOutcomes)
        \/ booking_get_name(u, t, SendOutcomes)
        \/ booking_get_phone(u, t, SendOutcomes)
        \/ booking_get_branch(u, t, SendOutcomes)
        \/ booking_get_date(u, t, SendOutcomes)
SpecBranch == InitBranch /\ [][NextBranch]_vars

\* A user who has a record starts a booking and answers the offer to update
\* or to proceed.
ResumeTexts == {T_BookAppointment, T_UpdateInfo, T_ProceedWithBooking, T_Giza,
                T_Phone7, T_Cairo}
InitResume == InitWith({None}, {{Row1}}, MaxMsgs)
NextResume ==
    \E u \in {1}, t \in ResumeTexts :
        \/ book_appointment(u, t, Delivers)
        \/ booking_get_name(u, t, Delivers)
        \/ booking_get_phone(u, t, Delivers)
        \/ booking_get_branch(u, t, Delivers)
        \/ booking_get_date(u, t, Delivers)
        \/ booking_confirm(u, t, Delivers)
SpecResume == InitResume /\ [][NextResume]_vars

\* The same user and texts, where every reply may raise and leave a booking
\* step with its field stored and its state kept.
InitFieldsHeld == InitWith({None}, {{Row1}}, MaxMsgs)
NextFieldsHeld ==
    \E u \in {1}, t \in ResumeTexts :
        \/ book_appointment(u, t, SendOutcomes)
        \/ booking_get_name(u, t, SendOutcomes)
        \/ booking_get_phone(u, t, SendOutcomes)
        \/ booking_get_branch(u, t, SendOutcomes)
        \/ booking_get_date(u, t, SendOutcomes)
        \/ booking_confirm(u, t, SendOutcomes)
SpecFieldsHeld == InitFieldsHeld /\ [][NextFieldsHeld]_vars

\* Whole bookings of two users while user 1 is the configured admin.
AlertTexts == {T_BookAppointment, T_Al, T_Cairo, T_Confirm}
InitAlert == InitWith({Some(<<"1">>)}, {{}, {Row1}}, MaxMsgs)
NextAlert ==
    \E u \in Users, t \in AlertTexts :
        \/ book_appointment(u, t, Delivers)
        \/ booking_get_name(u, t, Delivers)
        \/ booking_get_phone(u, t, Delivers)
        \/ booking_get_branch(u, t, Delivers)
        \/ booking_get_date(u, t, Delivers)
        \/ booking_confirm(u, t, Delivers)
        \/ unhandled(u, t)
SpecAlert == InitAlert /\ [][NextAlert]_vars

\* One user's chat dialogue of main.py where the typing signal may fail, and
\* one update of HakeemBot, whose engine signals typing before each request.
TypingTexts == {T_Chat, T_GroqFastChat, T_GeminiDeepAnalysis}
InitTyping ==
    /\ InitMain({None}, {{}})
    /\ InitHakeem({Some(<<"k">>)}, {Some(<<"k">>)})
    /\ InitRunning
    /\ budget = MaxMsgs
NextTyping ==
    \/ \E u \in {1}, t \in TypingTexts :
          \/ hk.pc \in {"idle", "done"} /\ chat_start(u, t, Delivers)
          \/ hk.pc \in {"idle", "done"} /\ select_chat_mode(u, t, Delivers)
          \/ \E outcome \in {"200", "error"}, typing_ok \in BOOLEAN :
                hk.pc \in {"idle", "done"} /\ handle_chat(u, t, outcome, typing_ok, ChatDelivers)
    \/ hk.pc = "idle" /\ hk_handle_message(1, T_Question)
    \/ \E outcome \in {"200", "error"} : hk_groq_response({outcome})
    \/ \E outcome \in {"200", "error"} : hk_gemini_response({outcome})
    \/ hk_reply
SpecTyping == InitTyping /\ [][NextTyping]_vars

\* Commands, button labels and free text sent to both programs outside the
\* dialogues.
\* A command addressed to this bot by name, one addressed to another bot,
\* one followed by a comma, and a slash that opens no command.
T_SlashStartAtBot == T_SlashStart \o <<"@">> \o BotUsername
T_SlashHelpAtOther == T_SlashHelp \o <<"@", "o", "t", "h", "e", "r", "_", "b", "o", "t">>
T_SlashStartComma == T_SlashStart \o <<",", "h", "i">>
T_SlashBang == <<"/", "!">>
\* "/start" run into a letter: the platform marks no command there.
T_SlashStartAccent == T_SlashStart \o <<"U+00E9">>
MainDispatchTexts == {T_SlashStart, T_SlashHelp, T_SlashProfile, T_SlashStats,
                      T_SlashFoo, T_MyProfile, T_Help, T_Home, T_MedicalAnalysis,
                      T_Question, T_SlashStartAtBot, T_SlashHelpAtOther,
                      T_SlashStartComma, T_SlashBang, T_SlashStartAccent}
HkDispatchTexts == {T_SlashStart, T_SlashHelp, T_SlashStatus, T_SlashProfile,
                    T_SlashFoo, T_AskHakeem, T_Status, T_HelpAr, T_Question,
                    T_SlashStartAtBot, T_SlashHelpAtOther, T_SlashStartComma,
                    T_SlashBang, T_SlashStartAccent}
InitDispatch ==
    /\ InitMain({None}, {{}})
    /\ InitHakeem({None}, {None})
    /\ InitRunning
    /\ budget = MaxUpdates
NextDispatch ==
    \/ \E u \in {1}, t \in MainDispatchTexts :
          \/ start(u, t, Delivers)
          \/ help_command(u, t, Delivers)
          \/ show_profile(u, t, Delivers)
          \/ stats(u, t, Delivers)
          \/ chat_start(u, t, Delivers)
          \/ unhandled(u, t)
    \/ \E u \in {1}, t \in HkDispatchTexts :
          \/ hk_start_command(u, t)
          \/ hk_help_command(u, t)
          \/ hk_status_command(u, t)
          \/ hk_profile_command(u, t)
          \/ hk_handle_message(u, t)
          \/ hk_unhandled(u, t)
    \/ hk_groq_response({"error"})
    \/ hk_gemini_response({"error"})
    \/ hk_reply
SpecDispatch == InitDispatch /\ [][NextDispatch]_vars

\* Every operation of both stores, each of which may meet a storage error.
\* The two programs share nothing, so a run is one of main.py alone, where
\* one user, who is the admin, books, chats and asks for the profile and the
\* statistics, or one of HakeemBot alone.  The user has a record; the replies
\* of booking_confirm and stats may raise.
StoreTexts == {T_BookAppointment, T_Cairo, T_Confirm, T_SlashProfile, T_SlashStats,
               T_Chat, T_GroqFastChat}
HkStoredUser == [id |-> 1, telegram_id |-> 1, first_name |-> T_Al]
InitStore ==
    /\ InitMain({Some(<<"1">>)}, {{Row1}})
    /\ GROQ_API_KEY = Some(<<"k">>)
    /\ GEMINI_API_KEY = None
    /\ hk_users \in {{}, {HkStoredUser}}
    /\ hk_chats = {}
    /\ hk = HkIdle
    /\ hk_log = <<>>
    /\ update_queue = <<>>
    /\ InitRunning
    /\ budget = MaxMsgs
NextStore ==
    \/ \E u \in {1}, t \in StoreTexts :
          \/ hk = HkIdle /\ book_appointment(u, t, Delivers)
          \/ hk = HkIdle /\ booking_get_name(u, t, Delivers)
          \/ hk = HkIdle /\ booking_get_phone(u, t, Delivers)
          \/ hk = HkIdle /\ booking_get_branch(u, t, Delivers)
          \/ hk = HkIdle /\ booking_get_date(u, t, Delivers)
          \/ hk = HkIdle /\ booking_confirm(u, t, SendOutcomes)
          \/ hk = HkIdle /\ show_profile(u, t, Delivers)
          \/ hk = HkIdle /\ stats(u, t, SendOutcomes)
          \/ hk = HkIdle /\ chat_start(u, t, Delivers)
          \/ hk = HkIdle /\ select_chat_mode(u, t, Delivers)
          \/ hk = HkIdle /\ handle_chat(u, t, "200", TRUE, ChatDelivers)
    \/ last.handler = "none" /\ hk_handle_message(1, T_Question)
    \/ last.handler = "none" /\ hk_start_command(1, T_SlashStart)
    \/ last.handler = "none" /\ hk_status_command(1, T_SlashStatus)
    \/ hk_groq_response({"200"})
    \/ hk_reply
SpecStore == InitStore /\ [][NextStore]_vars

\* Two users whose bookings and chat-mode choices interleave.  Each sends
\* texts of their own, so that a field or a mode of one that showed up with
\* the other would be seen.  The reply to a choice of provider may raise.
MaxSessionMsgs == 8
SessionTexts(u) ==
    IF u = 1
    THEN {T_BookAppointment, T_Al, T_Cairo, T_Confirm, T_Chat, T_GroqFastChat}
    ELSE {T_BookAppointment, T_Giza, T_Chat, T_GeminiDeepAnalysis}
InitSession == InitWith({None}, {{}}, MaxSessionMsgs)
NextSession ==
    \E u \in {1, 2} : \E t \in SessionTexts(u) :
        \/ book_appointment(u, t, Delivers)
        \/ booking_get_name(u, t, Delivers)
        \/ booking_get_phone(u, t, Delivers)
        \/ booking_get_branch(u, t, Delivers)
        \/ booking_get_date(u, t, Delivers)
        \/ booking_confirm(u, t, Delivers)
        \/ chat_start(u, t, Delivers)
        \/ select_chat_mode(u, t, SendOutcomes)
SpecSession == InitSession /\ [][NextSession]_vars

\* One user sending texts to HakeemBot faster than they are answered: a text
\* is received while an earlier one is with the providers.  Questions, a
\* command, a button and a command no handler accepts wait in the same queue.
MaxBurst == 3
BurstTexts == {T_Question, T_SlashHelp, T_HelpAr, T_SlashFoo}
InitBurst ==
    /\ InitMain({None}, {{}})
    /\ InitHakeem({Some(<<"k">>)}, {Some(<<"k">>)})
    /\ InitRunning
    /\ budget = MaxBurst
NextBurst ==
    \/ \E t \in BurstTexts : hk_receive(1, t)
    \/ hk_next_update
    \/ hk_groq_response({"200", "error"})
    \/ hk_gemini_response({"200", "error"})
    \/ hk_reply
SpecBurst == InitBurst /\ [][NextBurst]_vars

\* The /status command of HakeemBot asked at every age of the process, up
\* to more than a day.
MaxTicks == 60
InitUptime ==
    /\ InitMain({None}, {{}})
    /\ InitHakeem({None}, {None})
    /\ InitRunning
    /\ budget = MaxUpdates
NextUptime ==
    \/ tick(MaxTicks)
    \/ hk_status_command(1, T_SlashStatus)
SpecUptime == InitUptime /\ [][NextUptime]_vars

\* One user going through every handler of main.py: the commands, the
\* profile, a whole booking confirmed or cancelled, and the chat dialogue;
\* the replies of book_appointment and booking_confirm may raise.
FrameTexts == {T_BookAppointment, T_Cairo, T_Confirm, T_CrossCancel, T_SlashStart,
               T_SlashHelp, T_SlashProfile, T_SlashStats, T_Chat, T_GroqFastChat}
InitFrame == InitWith({None}, {{Row1}}, MaxMsgs)
NextFrame ==
    \E u \in {1}, t \in FrameTexts :
        \/ start(u, t, Delivers)
        \/ help_command(u, t, Delivers)
        \/ show_profile(u, t, Delivers)
        \/ stats(u, t, Delivers)
        \/ book_appointment(u, t, SendOutcomes)
        \/ booking_get_name(u, t, Delivers)
        \/ booking_get_phone(u, t, Delivers)
        \/ booking_get_branch(u, t, Delivers)
        \/ booking_get_date(u, t, Delivers)
        \/ booking_confirm(u, t, SendOutcomes)
        \/ chat_start(u, t, Delivers)
        \/ select_chat_mode(u, t, Delivers)
        \/ \E outcome \in {"200", "error"} : handle_chat(u, t, outcome, TRUE, ChatDelivers)
SpecFrame == InitFrame /\ [][NextFrame]_vars

\* One user whose booking is interrupted by the commands, where every reply
\* may raise.
InterruptTexts == {T_BookAppointment, T_Cairo, T_SlashStart, T_SlashHelp, T_SlashProfile,
                  T_SlashStats}
InitInterrupt == InitWith({None}, {{}, {Row1}}, MaxCommandMsgs)
NextInterrupt ==
    \E u \in {1}, t \in InterruptTexts :
        \/ start(u, t, SendOutcomes)
        \/ help_command(u, t, SendOutcomes)
        \/ show_profile(u, t, SendOutcomes)
        \/ stats(u, t, SendOutcomes)
        \/ book_appointment(u, t, SendOutcomes)
        \/ booking_get_name(u, t, SendOutcomes)
        \/ booking_get_phone(u, t, SendOutcomes)
        \/ booking_get_branch(u, t, SendOutcomes)
SpecInterrupt == InitInterrupt /\ [][NextInterrupt]_vars

\* A user booking again and again while time passes, so that a record is
\* replaced later than it was created.
MaxStamps == 2
StampTexts == {T_BookAppointment, T_Al, T_Cairo, T_Confirm, T_SlashProfile}
InitStamps == InitWith({None}, {{}, {Row1}}, MaxMsgs)
NextStamps ==
    \/ tick(MaxStamps)
    \/ \E u \in {1}, t \in StampTexts :
          \/ book_appointment(u, t, SendOutcomes)
          \/ booking_get_name(u, t, SendOutcomes)
          \/ booking_get_phone(u, t, SendOutcomes)
          \/ booking_get_branch(u, t, SendOutcomes)
          \/ booking_get_date(u, t, SendOutcomes)
          \/ booking_confirm(u, t, SendOutcomes)
          \/ show_profile(u, t, SendOutcomes)
SpecStamps == InitStamps /\ [][NextStamps]_vars

\* HakeemBot's catch-all handler given questions and blank texts, with keys
\* present or missing. Every await of the handler ends: the provider calls
\* are made with a 30 second timeout and their exceptions are caught, so
\* each step of a message being handled is taken once it can be (weak
\* fairness of the two provider steps and of the reply).
AnswerTexts == {T_Question, T_AskHakeem, T_Blank}
AnswerOutcomes == {"200", "200_empty_text", "timeout", "error"}
InitAnswer ==
    /\ InitMain({None}, {{}})
    /\ InitHakeem({None, Some(<<"k">>)}, {None, Some(<<"k">>)})
    /\ InitRunning
    /\ budget = MaxUpdates
NextAnswer ==
    \/ \E t \in AnswerTexts : hk_handle_message(1, t)
    \/ hk_groq_response(AnswerOutcomes)
    \/ hk_gemini_response(AnswerOutcomes)
    \/ hk_reply
SpecAnswer ==
    /\ InitAnswer
    /\ [][NextAnswer]_vars
    /\ WF_vars(hk_groq_response(AnswerOutcomes))
    /\ WF_vars(hk_gemini_response(AnswerOutcomes))
    /\ WF_vars(hk_reply)
\* ================================================================== claims

\* The message of the first reply_text call made for the update handled
\* last: the reply of the handler itself, "error" when an exception left the
\* handler before it replied (the call is then error_handler's), "none" when
\* no call was made.
FirstReply(log) == IF log = <<>> THEN "none" ELSE log[1].kind

\* The reply of the handler that ran last was made with this message, and
\* the user has it unless the call raised.
Answered(u, kind, n) ==
    /\ reply_log # <<>>
    /\ reply_log[1].kind = kind
    /\ reply_log[1].n = n
    /\ reply_log[1].ok => outbox[u] = [kind |-> kind, n |-> n]

\* The rows of the patient store that belong to one platform user id.
RowsOf(rows, u) == {r \in rows : r.telegram_id = u}

\* A row without its id: what the user sees of the record.
Fields(r) == [name |-> r.name, phone |-> r.phone, branch |-> r.branch,
              date |-> r.appointment_date]

\* The step just taken is a booking confirmed and saved for user u.
ConfirmedStep(u) ==
    /\ last'.handler = "booking_confirm"
    /\ last'.user = u
    /\ last'.text = T_Confirm
    /\ db_log' = <<DbOp("add_patient", TRUE)>>

\* C1: after any sequence of confirmed bookings the patient store holds at
\* most one record per platform user id, and that record carries the name,
\* phone, branch and date of the user's most recent confirmed booking: a
\* confirmed booking of u leaves exactly one record of u, made of the fields
\* u entered in the dialogue, and no other step changes the records of u.
C1_UpsertOneRecordPerUser ==
    [][\A u \in Users :
          /\ Cardinality(RowsOf(patients', u)) <= 1
          /\ ConfirmedStep(u) =>
                {Fields(r) : r \in RowsOf(patients', u)} = {user_data[u]["booking"]}
          /\ ~ConfirmedStep(u) => RowsOf(patients', u) = RowsOf(patients, u)
      ]_vars

\* C1 witness: user 1, whose record of an earlier run holds phone T_Phone8,
\* has confirmed a second booking with another phone; one record is left.
C1_Witness ==
    /\ last.handler = "booking_confirm"
    /\ last.user = 1
    /\ outbox[1].kind = "booking_confirmed"
    /\ \E r \in patients : r.telegram_id = 1 /\ r.id > 1 /\ r.phone = T_Phone8b
    /\ Cardinality(RowsOf(patients, 1)) = 1

\* The digit characters of a text once spaces and dashes are stripped.
StripSpacesDashes(t) == SelectSeq(t, LAMBDA c : c \notin {" ", "-"})
IsDigit(c) == \E i \in 1..10 : Digits[i] = c
DigitCount(t) == Len(SelectSeq(StripSpacesDashes(t), IsDigit))

\* The booking field of user u, or <<>> when it is not set.
BookingField(u, field) ==
    IF HasKey(user_data[u], "booking") /\ HasKey(user_data[u]["booking"], field)
    THEN user_data[u]["booking"][field] ELSE <<>>

\* C2: in the phone-collection state an input with fewer than 8 digits
\* (spaces and dashes stripped) is rejected and the dialogue stays in the
\* phone-collection state; an input with 8 or more digits is stored and the
\* dialogue advances.
C2_PhoneValidated ==
    (last.handler = "booking_get_phone" /\ last.state = STATE_BOOKING_PHONE) =>
        IF DigitCount(last.text) < 8
        THEN booking_conv[last.user] = STATE_BOOKING_PHONE
        ELSE /\ booking_conv[last.user] = STATE_BOOKING_BRANCH
             /\ BookingField(last.user, "phone") = last.text

\* C3: in the name-collection state an input shorter than 2 characters is
\* rejected and the dialogue stays in the name-collection state; an input of
\* 2 or more characters is stored and the dialogue advances to phone
\* collection.
C3_NameValidated ==
    (last.handler = "booking_get_name" /\ last.state = STATE_BOOKING_NAME) =>
        IF Len(last.text) < 2
        THEN booking_conv[last.user] = STATE_BOOKING_NAME
        ELSE /\ booking_conv[last.user] = STATE_BOOKING_PHONE
             /\ BookingField(last.user, "name") = last.text

ConfirmWords == {T_OK, T_ok, T_Tamam, T_Check}
CancelWords == {T_no, T_Ilghaa, T_Cross}

\* C4: in the Confirm state each of "OK", "ok", the Arabic word for "fine"
\* and a check mark ends the dialogue as confirmed (the record is upserted),
\* and each of "no", the Arabic word for "cancel" and a cross ends it as
\* cancelled (no record is written).
C4_ConfirmationWords ==
    (last.handler = "booking_confirm" /\ last.state = STATE_BOOKING_CONFIRM) =>
        /\ last.text \in ConfirmWords =>
              /\ booking_conv[last.user] = END
              /\ outbox[last.user].kind \in {"booking_confirmed", "save_error"}
              /\ Len(db_log) = 1 /\ db_log[1].op = "add_patient"
        /\ last.text \in CancelWords =>
              /\ booking_conv[last.user] = END
              /\ outbox[last.user].kind = "booking_cancelled"
              /\ db_log = <<>>

\* C5: in the Confirm state an input that is neither a confirmation nor a
\* cancellation word ("maybe") re-prompts and leaves the dialogue in the
\* Confirm state, the collected fields and the patient store unchanged.
C5_UnrelatedInputReprompts ==
    [][\A u \in Users :
          (/\ booking_conv[u] = STATE_BOOKING_CONFIRM
           /\ last'.user = u
           /\ last'.text = T_maybe)
          => /\ booking_conv'[u] = STATE_BOOKING_CONFIRM
             /\ user_data'[u] = user_data[u]
             /\ patients' = patients
      ]_vars

BookingStates == {STATE_BOOKING_START, STATE_BOOKING_NAME, STATE_BOOKING_PHONE,
                  STATE_BOOKING_BRANCH, STATE_BOOKING_DATE, STATE_BOOKING_CONFIRM}
CancelInputs == {T_Cancel, T_SlashCancel}

\* C6: from every state of the booking dialogue the cancel input ("Cancel" or
\* /cancel) ends the dialogue immediately and is never stored as a booking
\* field.
C6_CancelFromEveryState ==
    (last.state \in BookingStates /\ last.text \in CancelInputs) =>
        /\ booking_conv[last.user] = END
        /\ \A field \in {"name", "phone", "branch", "date"} :
              BookingField(last.user, field) \notin CancelInputs

\* The names of the events of a log that are among evs, in order.
EventsAmong(log, evs) ==
    LET kept == SelectSeq(log, LAMBDA e : e.ev \in evs)
    IN [i \in 1..Len(kept) |-> kept[i].ev]
HasEvent(log, ev) == \E i \in 1..Len(log) : log[i].ev = ev
\* Whether the provider call whose return event is ev yielded text.
Yielded(log, ev) == \E i \in 1..Len(log) : log[i].ev = ev /\ Truthy(log[i].val)
\* respond has returned for a message that reached the engine.
Responded == hk.pc \in {"reply", "done"} /\ HasEvent(hk_log, "groq_call")

\* C7: for every message handled by MedicalEngine.respond Groq is attempted
\* first and at most once, and Gemini is attempted, at most once and only
\* afterwards, if and only if Groq yielded no text; neither provider is sent
\* more than one request.
C7_GroqFirstGeminiOnlyOnFailure ==
    /\ EventsAmong(hk_log, {"groq_call", "gemini_call"})
          \in { <<>>, <<"groq_call">>, <<"groq_call", "gemini_call">> }
    /\ Len(EventsAmong(hk_log, {"groq_http"})) <= 1
    /\ Len(EventsAmong(hk_log, {"gemini_http"})) <= 1
    /\ HasEvent(hk_log, "gemini_call") =>
          (HasEvent(hk_log, "groq_return") /\ ~Yielded(hk_log, "groq_return"))
    /\ (Responded /\ ~Yielded(hk_log, "groq_return")) => HasEvent(hk_log, "gemini_call")

\* C7 witness: Groq was sent a request that failed, then Gemini answered.
C7_Witness ==
    /\ hk.pc = "done"
    /\ EventsAmong(hk_log, {"groq_call", "groq_http", "gemini_call", "gemini_http"})
          = <<"groq_call", "groq_http", "gemini_call", "gemini_http">>
    /\ ~Yielded(hk_log, "groq_return")
    /\ Yielded(hk_log, "gemini_return")

\* C8: when Groq fails and Gemini succeeds respond returns the label
\* "Gemini" and the chat row saved for the message records engine "Gemini";
\* a reply produced by Groq is always attributed to "Groq".
C8_ReplyAttributedToItsProvider ==
    /\ (Responded /\ ~Yielded(hk_log, "groq_return") /\ Yielded(hk_log, "gemini_return"))
          => /\ hk.engine_used = "Gemini"
             /\ hk.response = Some(GeminiAnswer)
    /\ (Responded /\ Yielded(hk_log, "groq_return"))
          => /\ hk.engine_used = "Groq"
             /\ hk.response = Some(GroqAnswer)
    /\ \A i \in 1..Len(hk_log) :
          (hk_log[i].ev = "save_chat" /\ hk_log[i].ok) =>
              \E r \in hk_chats :
                  /\ r.telegram_id = hk.user
                  /\ r.user_message = hk.text
                  /\ r.bot_response = hk.response.text
                  /\ r.engine = hk.engine_used
    /\ \A r \in hk_chats :
          /\ r.bot_response = GeminiAnswer => r.engine = "Gemini"
          /\ r.bot_response = GroqAnswer => r.engine = "Groq"

\* C8 witness: Groq failed, Gemini answered, and the row saved for the
\* message names Gemini.
C8_Witness ==
    /\ hk.pc = "done"
    /\ ~Yielded(hk_log, "groq_return")
    /\ hk.engine_used = "Gemini"
    /\ \E r \in hk_chats :
          /\ r.telegram_id = hk.user
          /\ r.bot_response = GeminiAnswer
          /\ r.engine = "Gemini"

\* C9: when both providers yield no text for a message (with both API keys
\* missing no HTTP request is issued) the catch-all handler sends the generic
\* failure message and writes no chat-history row for that message.
C9_BothFailNoRowWritten ==
    [][(/\ hk.pc = "reply"
        /\ hk'.pc = "done"
        /\ ~Yielded(hk_log, "groq_return")
        /\ ~Yielded(hk_log, "gemini_return"))
       => /\ hk_chats' = hk_chats
          /\ ~HasEvent(hk_log', "save_chat")
          /\ ~HasEvent(hk_log', "send_answer")
          /\ HasEvent(hk_log', "send_api_error")
          /\ (~Truthy(GROQ_API_KEY) /\ ~Truthy(GEMINI_API_KEY))
                => EventsAmong(hk_log', {"groq_http", "gemini_http", "typing"}) = <<>>
      ]_vars

\* C9 witness: both keys are missing, the failure message went out and no
\* request was made.
C9_Witness ==
    /\ hk.pc = "done"
    /\ GROQ_API_KEY = None /\ GEMINI_API_KEY = None
    /\ \E i \in 1..Len(hk_log) : hk_log[i].ev = "send_api_error" /\ hk_log[i].ok
    /\ hk_chats = {}
    /\ EventsAmong(hk_log, {"groq_http", "gemini_http"}) = <<>>

\* C10: /stats from a platform id that is not the configured admin id, or
\* with no admin id configured, returns the unauthorized message and reads
\* nothing from the patient store; from exactly the configured admin id it
\* returns the patient count (0 when the store cannot be read, as
\* get_patient_count documents).  The message is the one stats replies
\* with; the user has it unless that reply_text call raised.
C10_StatsAdminOnly ==
    last.handler = "stats" =>
        IF ~ADMIN_ID.none /\ ADMIN_ID.text = Str(last.user)
        THEN /\ db_log \in { <<DbOp("get_patient_count", TRUE)>>,
                             <<DbOp("get_patient_count", FALSE)>> }
             /\ Answered(last.user, "stats",
                         IF db_log[1].ok THEN Cardinality(patients) ELSE 0)
        ELSE /\ Answered(last.user, "unauthorized", 0)
             /\ db_log = <<>>

\* C10 witness: the admin asked for the statistics of a store of two
\* patients and got the count 2.
C10_Witness ==
    /\ last.handler = "stats"
    /\ ADMIN_ID = Some(Str(last.user))
    /\ outbox[last.user] = [kind |-> "stats", n |-> 2]
    /\ Cardinality(patients) = 2

\* Whether text t ends with the text suffix.
EndsWith(t, suffix) ==
    /\ Len(t) >= Len(suffix)
    /\ SubSeq(t, Len(t) - Len(suffix) + 1, Len(t)) = suffix

\* A provider reply and the message sent for it under a threshold: a longer
\* reply goes out cut, marked, and no longer than the threshold; a reply
\* within the threshold goes out whole and unmarked.
SentWithin(reply, sent, limit, mark) ==
    IF Len(reply) > limit
    THEN Len(sent) <= limit /\ EndsWith(sent, mark)
    ELSE EndsWith(sent, reply) /\ ~EndsWith(sent, mark)

\* C11: a provider reply longer than the threshold (1000 characters in the
\* chat mode of main.py, 2000 in the catch-all handler of
\* medical_bot_complete.py) is truncated with a continuation marker and the
\* message sent does not exceed the threshold; a reply at or below the
\* threshold is sent whole with no marker.
C11_RepliesWithinThreshold ==
    /\ \A i, j \in 1..Len(chat_log) :
          (/\ chat_log[i].ev \in {"groq_call", "gemini_call"}
           /\ chat_log[j].ev = "send_answer")
          => SentWithin(chat_log[i].val.text, chat_log[j].val.text,
                        ChatReplyLimit, ChatTruncationMark)
    /\ \A j \in 1..Len(hk_log) :
          hk_log[j].ev = "send_answer"
          => SentWithin(hk.response.text, hk_log[j].val.text,
                        HakeemReplyLimit, TruncationMark)

\* C12: if TELEGRAM_TOKEN is not set, the process terminates with a non-zero
\* exit status before any database, engine or handler is constructed, so no
\* handler ever runs and no dialogue state is ever reachable: each program is
\* still at its first lines or has exited with status 1 having built
\* nothing, no update has been handled and every dialogue is closed.
C12_NoTokenNoDialogue ==
    ~Truthy(TELEGRAM_TOKEN) =>
        /\ \A proc \in {main_proc, hk_proc} :
              /\ proc.pc \in {"boot", "exited"}
              /\ proc.pc = "exited" => proc.status = 1
              /\ proc.built = {}
        /\ last.handler = "none"
        /\ hk = HkIdle /\ hk_log = <<>>
        /\ \A u \in Users :
              /\ booking_conv[u] = END
              /\ chat_conv[u] = END
              /\ outbox[u].kind = "nothing"

\* C12 witness: with no token both programs have exited with status 1.
C12_Witness ==
    /\ TELEGRAM_TOKEN = None
    /\ main_proc = Exited(1, {})
    /\ hk_proc = Exited(1, {})

\* C13: in chat mode a message from a user with no Patient record is still
\* answered but no chat_history row is written for it; under any
\* interleaving of bookings and chat messages every chat_history row belongs
\* to a user id that has a Patient record.
C13_ChatRowsOnlyForPatients ==
    [][/\ \A r \in chat_history' : RowsOf(patients', r.telegram_id) # {}
       /\ (last'.handler = "handle_chat" /\ RowsOf(patients, last'.user) = {})
            => /\ chat_history' = chat_history
               /\ ~HasEvent(chat_log', "save_chat")
               /\ (Yielded(chat_log', "groq_call") \/ Yielded(chat_log', "gemini_call"))
                     => HasEvent(chat_log', "send_answer")
      ]_vars

\* C13 witness: a user whose booking ended without a record asks a question
\* and is answered, and chat_history stays empty.
C13_Witness ==
    /\ last.handler = "handle_chat"
    /\ HasKey(user_data[last.user], "booking")
    /\ RowsOf(patients, last.user) = {}
    /\ HasEvent(chat_log, "send_answer")
    /\ chat_history = {}

\* C14: in the AwaitingQuestion state each question causes exactly one
\* provider call, to the provider selected in SelectMode, and never a call
\* to the other provider, even when the selected provider yields no answer.
C14_OneCallToSelectedProvider ==
    /\ (last.handler = "select_chat_mode" /\ chat_conv[last.user] = STATE_CHAT_INPUT)
          => user_data[last.user]["chat_mode"] =
                IF Contains(W_Groq, last.text) THEN "groq" ELSE "gemini"
    /\ last.handler = "handle_chat"
          => /\ last.chat_state = STATE_CHAT_INPUT
             /\ EventsAmong(chat_log, {"groq_call", "gemini_call"}) =
                   IF user_data[last.user]["chat_mode"] = "groq"
                   THEN <<"groq_call">> ELSE <<"gemini_call">>

ChatStates == {STATE_CHAT_MODE, STATE_CHAT_INPUT}
ExitKeywords == {T_GoHome, T_ExitChat}

\* C15: the chat dialogue stays in AwaitingQuestion after every handled
\* question, whatever the provider outcome, and it ends exactly when the
\* user sends an exit keyword ("Go Home" or "Exit Chat"), which ends the
\* dialogue from either chat-mode state.
C15_ChatEndsOnExitKeyword ==
    /\ last.handler = "handle_chat" => chat_conv[last.user] = STATE_CHAT_INPUT
    /\ (last.chat_state \in ChatStates /\ last.text \in ExitKeywords)
          => chat_conv[last.user] = END
    /\ (last.chat_state = STATE_CHAT_INPUT /\ chat_conv[last.user] = END)
          => last.text \in ExitKeywords

\* C16: in the SelectMode state free text that matches neither provider
\* option nor the back/cancel option is rejected with a re-prompt and the
\* dialogue stays in SelectMode.
C16_SelectModeReprompts ==
    (/\ last.handler = "select_chat_mode"
     /\ last.chat_state = STATE_CHAT_MODE
     /\ ~Contains(W_Groq, last.text)
     /\ ~Contains(W_Gemini, last.text)
     /\ last.text \notin ExitKeywords \cup {T_Cancel})
    => /\ chat_conv[last.user] = STATE_CHAT_MODE
       /\ outbox[last.user].kind = "choose_ai"

\* Two texts that differ at most in the case of their letters.
SameIgnoringCase(a, b) ==
    /\ Len(a) = Len(b)
    /\ \A i \in 1..Len(a) :
          \/ a[i] = b[i]
          \/ \E k \in 1..26 : {a[i], b[i]} = {UpperCase[k], LowerCase[k]}

\* C17: in the CollectBranch state input that names neither known branch is
\* rejected with a re-prompt and the dialogue stays in CollectBranch; input
\* that matches a known branch name case-insensitively is stored and the
\* dialogue advances to date collection.  The messages are the ones
\* booking_get_branch replies with; the state is the one the dialogue is in
\* once the update is handled.
C17_BranchMatchedIgnoringCase ==
    last.handler = "booking_get_branch"
    => /\ last.state = STATE_BOOKING_BRANCH
       /\ IF \E br \in BRANCHES : SameIgnoringCase(last.text, br)
          THEN /\ booking_conv[last.user] = STATE_BOOKING_DATE
               /\ HasKey(user_data[last.user]["booking"], "branch")
               /\ user_data[last.user]["booking"]["branch"] \in BRANCHES
               /\ SameIgnoringCase(last.text, user_data[last.user]["booking"]["branch"])
               /\ Answered(last.user, "ask_date", 0)
          ELSE /\ booking_conv[last.user] = STATE_BOOKING_BRANCH
               /\ ~HasKey(user_data[last.user]["booking"], "branch")
               /\ Answered(last.user, "choose_branch", 0)

\* C18: when a user who already has a Patient record starts a booking,
\* choosing "Proceed with Booking" continues with the saved name and phone,
\* and choosing "Update Info" goes to name collection.
C18_ProceedKeepsSavedInfo ==
    (/\ last.state = STATE_BOOKING_START
     /\ RowsOf(patients, last.user) # {})
    => /\ last.text = T_ProceedWithBooking
          => \E r \in RowsOf(patients, last.user) :
                /\ HasKey(user_data[last.user], "booking")
                /\ {"name", "phone"} \subseteq DOMAIN user_data[last.user]["booking"]
                /\ user_data[last.user]["booking"]["name"] = r.name
                /\ user_data[last.user]["booking"]["phone"] = r.phone
                /\ booking_conv[last.user] = STATE_BOOKING_BRANCH
       /\ last.text = T_UpdateInfo
          => /\ booking_conv[last.user] = STATE_BOOKING_NAME
             /\ outbox[last.user].kind = "ask_name"

\* C19: after each successful booking confirmation an alert is sent to the
\* configured admin, and the patient's confirmation stands whether or not
\* the alert could be delivered.
C19_AdminAlertedOnConfirmation ==
    (/\ last.handler = "booking_confirm"
     /\ last.text = T_Confirm
     /\ db_log = <<DbOp("add_patient", TRUE)>>)
    => /\ outbox[last.user].kind = "booking_confirmed"
       /\ RowsOf(patients, last.user) # {}
       /\ \A a \in Users \ {last.user} :
             ADMIN_ID = Some(Str(a)) => outbox[a].kind = "booking_alert"

\* C20: if the patient-record upsert fails at confirmation, the reply of
\* booking_confirm is the apology instead of the confirmation, the booking
\* dialogue is ended once the update is handled, and the patient store is
\* left unchanged.
C20_FailedUpsertApologises ==
    [][(/\ last'.handler = "booking_confirm"
        /\ db_log' = <<DbOp("add_patient", FALSE)>>)
       => /\ FirstReply(reply_log') = "save_error"
          /\ booking_conv'[last'.user] = END
          /\ patients' = patients
          /\ patients_seq' = patients_seq
      ]_vars

\* C21: whenever a guided dialogue reaches a terminal state (booking
\* confirmed, booking cancelled, chat mode exited), that user's in-progress
\* session state (collected booking fields, selected chat mode) is cleared,
\* so no session data of a finished dialogue remains in memory.
C21_SessionClearedAtEnd ==
    /\ (last.handler = "booking_confirm" /\ booking_conv[last.user] = END)
          => \/ ~HasKey(user_data[last.user], "booking")
             \/ user_data[last.user]["booking"] = EmptyDict
    /\ (last.chat_state \in ChatStates /\ chat_conv[last.user] = END)
          => ~HasKey(user_data[last.user], "chat_mode")

\* C26: pressing the analysis button from the main menu enters the chat
\* dialogue: the dialogue is then in SelectMode, so the next provider choice
\* is handled by select_chat_mode and leads to AwaitingQuestion, as after
\* the chat button.
C26_AnalysisButtonEntersChat ==
    (/\ last.text = T_MedicalAnalysis
     /\ last.state = END
     /\ last.chat_state = END)
    => /\ outbox[last.user].kind = "choose_ai"
       /\ chat_conv[last.user] = STATE_CHAT_MODE
       /\ ChatRoute(chat_conv[last.user], T_GroqFastChat) = "select_chat_mode"
       /\ ChatRoute(chat_conv[last.user], T_GeminiDeepAnalysis) = "select_chat_mode"

\* Whether the start or the end of process p ("main", "hk") did e.
HasBoot(p, e) == \E i \in 1..Len(boot_log[p]) : boot_log[p][i] = e

\* C23: an error raised while creating the database schema at startup
\* terminates the process: the bot never starts polling and never handles a
\* message with an uninitialised store.
C23_SchemaErrorTerminates ==
    /\ HasBoot("main", "schema_error")
          => /\ main_proc.pc = "exited"
             /\ ~HasBoot("main", "polling_started")
             /\ last.handler = "none"
    /\ HasBoot("hk", "schema_error")
          => /\ hk_proc.pc = "exited"
             /\ ~HasBoot("hk", "polling_started")
             /\ hk = HkIdle

\* C27: if the startup identity-check call on the platform token errors,
\* startup fails closed: no handler is registered, polling never starts and
\* no message is ever handled.
C27_VerifyFailureFailsClosed ==
    HasBoot("hk", "verify_failed")
    => /\ hk_proc.pc = "exited"
       /\ "handlers" \notin hk_proc.built
       /\ ~HasBoot("hk", "handlers_added")
       /\ ~HasBoot("hk", "polling_started")
       /\ hk = HkIdle
       /\ hk_log = <<>>
       /\ hk_users = {}
       /\ hk_chats = {}

\* C27 witness: the identity check failed and the program has ended with
\* the database and the engine built but no handler, while main.py, started
\* with the same token, runs.
C27_Witness ==
    /\ boot_log.hk = <<"schema_ok", "verify_failed">>
    /\ hk_proc = Exited(0, {"db", "engine"})
    /\ main_proc.pc = "running"

\* C28: the process exit status is 0 on clean shutdown or manual
\* interruption and 1 on a missing mandatory token or on any other unhandled
\* startup error (failed token verification, an exception while
\* initialising, starting or polling).
C28_ExitStatus ==
    \A p \in {"main", "hk"} :
        LET proc == IF p = "main" THEN main_proc ELSE hk_proc
        IN proc.pc = "exited"
           => proc.status =
                 IF boot_log[p][Len(boot_log[p])] = "interrupt" THEN 0 ELSE 1

HttpEvents == {"groq_http", "gemini_http"}

\* C24: a typing indicator is signalled before each provider call, and a
\* failure to signal it is swallowed: it never prevents the provider call
\* from being issued nor the user from receiving the provider's answer.
C24_TypingFailureSwallowed ==
    /\ last.handler = "handle_chat"
          => /\ Len(chat_log) >= 2
             /\ chat_log[1].ev = "typing"
             /\ chat_log[2].ev \in {"groq_call", "gemini_call"}
             /\ Truthy(chat_log[2].val) => HasEvent(chat_log, "send_answer")
    /\ \A i \in 1..Len(hk_log) :
          /\ hk_log[i].ev \in HttpEvents => i > 1 /\ hk_log[i - 1].ev = "typing"
          /\ hk_log[i].ev = "typing"
                => i < Len(hk_log) /\ hk_log[i + 1].ev \in HttpEvents
    /\ (hk.pc = "done" /\ (Yielded(hk_log, "groq_return") \/ Yielded(hk_log, "gemini_return")))
          => HasEvent(hk_log, "send_answer")

\* The callback of HakeemBot that wrote a log, told by what it does first.
CallbackOfLog(log) ==
    IF log = <<>> THEN "unhandled"
    ELSE IF log[1].ev = "add_user"
    THEN (IF Len(log) > 1 /\ log[2].ev = "send_welcome"
          THEN "start_command" ELSE "handle_message")
    ELSE IF log[1].ev = "send_help" THEN "help_command"
    ELSE IF log[1].ev = "uptime" THEN "status_command"
    ELSE IF log[1].ev = "send_profile" THEN "profile_command"
    ELSE "unknown"

HkCommandNames == { <<"s","t","a","r","t">>, <<"h","e","l","p">>,
                    <<"s","t","a","t","u","s">>, <<"p","r","o","f","i","l","e">> }
HkButtonLabels == {T_AskHakeem, T_Status, T_HelpAr}
MainCommandNames == { <<"s","t","a","r","t">>, <<"h","e","l","p">>,
                      <<"p","r","o","f","i","l","e">>, <<"s","t","a","t","s">> }

\* C25: every inbound text message is dispatched to at most one handler, the
\* first registered one whose matcher accepts it: a registered command or a
\* bound button label is never handled by the catch-all, and the catch-all
\* handles every other non-command text.
C25_FirstMatchingHandler ==
    /\ hk.pc # "idle"
          => LET t == hk.text
                 i == hk.handler
                 CatchAll == Len(HkHandlers)
             IN /\ i \in 0..CatchAll
                /\ i = 0 => \A j \in 1..CatchAll : ~HkAccepts(HkHandlers[j], t)
                /\ i > 0 => /\ HkAccepts(HkHandlers[i], t)
                            /\ \A j \in 1..(i - 1) : ~HkAccepts(HkHandlers[j], t)
                            /\ CallbackOfLog(hk_log) = HkHandlers[i].callback
                /\ CommandOf(t) \in HkCommandNames
                      => /\ i \in 1..4
                         /\ HkHandlers[i].arg = CommandOf(t)
                /\ t \in HkButtonLabels
                      => /\ i \in 5..7
                         /\ HkHandlers[i].arg = t
                /\ (/\ CommandOf(t) \notin HkCommandNames
                    /\ t \notin HkButtonLabels
                    /\ t # <<>> /\ ~FilterCOMMAND(t))
                      => i = CatchAll
                /\ (CommandOf(t) \notin HkCommandNames /\ FilterCOMMAND(t)) => i = 0
    /\ last.handler # "none"
          => LET t == last.text
             IN /\ CommandOf(t) = <<"s","t","a","r","t">> => last.handler = "start"
                /\ CommandOf(t) = <<"h","e","l","p">> => last.handler = "help_command"
                /\ CommandOf(t) = <<"p","r","o","f","i","l","e">>
                      => last.handler = "show_profile"
                /\ CommandOf(t) = <<"s","t","a","t","s">> => last.handler = "stats"
                /\ (last.state = END /\ last.chat_state = END)
                      => /\ t = T_MedicalAnalysis => last.handler = "chat_start_button"
                         /\ t = T_MyProfile => last.handler = "show_profile"
                         /\ t = T_Help => last.handler = "help_command"
                         /\ t = T_Home => last.handler = "start"
                         /\ (/\ CommandOf(t) \notin MainCommandNames
                             /\ t \notin {T_MedicalAnalysis, T_MyProfile, T_Help, T_Home}
                             /\ BookingRoute(END, t) = "none"
                             /\ ChatRoute(END, t) = "none")
                               => last.handler = "unhandled"

\* C25 witness: the label of the ask button was dispatched to the button's
\* handler, the fifth added, which ran handle_message, while main.py had
\* dispatched the Home label to start.
C25_Witness ==
    /\ hk.text = T_AskHakeem
    /\ hk.handler = 5
    /\ HasEvent(hk_log, "send_thinking")
    /\ last.text = T_Home
    /\ last.handler = "start"

\* C22: no patient/chat store operation after startup raises to its caller:
\* on a storage error, upsert returns a failure indicator, get-patient
\* returns not-found, count returns 0 and save-chat silently drops the row,
\* and in each case the stored records are unchanged.  The caller is seen to
\* go on as after that result, its own reply being the first reply_text
\* call made for the update: the apology after a failed upsert, the path of
\* a user without record after a failed get-patient, the count 0 in the
\* statistics, the answer sent although the chat row was dropped.
C22_StoreErrorsContained ==
    [][LET u == last'.user
           h == last'.handler
       IN /\ \A i \in 1..Len(db_log') :
                ~db_log'[i].ok
                => /\ FirstReply(reply_log') # "error"
                   /\ patients' = patients
                   /\ patients_seq' = patients_seq
                   /\ db_log'[i].op = "add_patient"
                         => FirstReply(reply_log') = "save_error"
                   /\ (db_log'[i].op = "get_patient" /\ h = "book_appointment")
                         => FirstReply(reply_log') = "ask_name"
                   /\ (db_log'[i].op = "get_patient" /\ h = "show_profile")
                         => FirstReply(reply_log') = "no_profile"
                   /\ (db_log'[i].op = "get_patient" /\ h = "handle_chat")
                         => /\ ~HasEvent(chat_log', "save_chat")
                            /\ chat_history' = chat_history
                   /\ db_log'[i].op = "get_patient_count"
                         => reply_log'[1] \in {Sent("stats", 0, ok) : ok \in BOOLEAN}
          /\ \A i \in 1..Len(chat_log') :
                (chat_log'[i].ev = "save_chat" /\ ~chat_log'[i].ok)
                => /\ chat_history' = chat_history
                   /\ HasEvent(chat_log', "send_answer")
          /\ \A i \in 1..Len(hk_log') :
                /\ (hk_log'[i].ev = "add_user" /\ ~hk_log'[i].ok)
                      => /\ hk_users' = hk_users
                         /\ Len(hk_log') > i
                /\ (hk_log'[i].ev = "save_chat" /\ ~hk_log'[i].ok)
                      => /\ hk_chats' = hk_chats
                         /\ \E j \in (i + 1)..Len(hk_log') : hk_log'[j].ev = "send_answer"
                /\ (hk_log'[i].ev \in {"get_user_count", "get_chat_count"}
                      /\ ~hk_log'[i].ok)
                      => hk_log'[i].val = Some(<<"0">>)
      ]_vars

\* C22 witness: a chat row was dropped on a storage error and the answer
\* sent all the same, then the count failed and the statistics show 0
\* although a patient is stored.
C22_Witness ==
    /\ last.handler = "stats"
    /\ db_log = <<DbOp("get_patient_count", FALSE)>>
    /\ outbox[1] = [kind |-> "stats", n |-> 0]
    /\ patients = {Row1}
    /\ \E i \in 1..Len(chat_log) : chat_log[i].ev = "save_chat" /\ ~chat_log[i].ok
    /\ HasEvent(chat_log, "send_answer")
    /\ chat_history = {}

\* C29: session state is per user.  Handling a message of user A leaves the
\* dialogue states (booking and chat), the booking fields, the chat mode and
\* the last reply of every other user B as they were, and leaves B's stored
\* record alone; a record written on A's confirmation is A's record and holds
\* exactly the four fields A entered in A's own booking.
C29_SessionStatePerUser ==
    [][LET a == last'.user
       IN /\ \A b \in Users \ {a} :
                /\ booking_conv'[b] = booking_conv[b]
                /\ chat_conv'[b] = chat_conv[b]
                /\ user_data'[b] = user_data[b]
                /\ outbox'[b] = outbox[b]
                /\ RowsOf(patients', b) = RowsOf(patients, b)
          /\ \A r \in patients' \ patients :
                /\ r.telegram_id = a
                /\ HasKey(user_data[a], "booking")
                /\ LET booking == user_data[a]["booking"]
                   IN /\ r.name = booking["name"]
                      /\ r.phone = booking["phone"]
                      /\ r.branch = booking["branch"]
                      /\ r.appointment_date = booking["date"]
      ]_vars

\* C29 witness: user 1 has confirmed a booking made of the texts user 1 sent,
\* while user 2 is in the middle of a booking with a name of their own.
C29_Witness ==
    /\ last.handler = "booking_confirm"
    /\ last.user = 1
    /\ outbox[1].kind = "booking_confirmed"
    /\ \E r \in patients :
          /\ r.telegram_id = 1
          /\ r.name = T_Al
          /\ r.branch = Lower(T_Cairo)
    /\ booking_conv[2] = STATE_BOOKING_PHONE
    /\ HasKey(user_data[2], "booking")
    /\ user_data[2]["booking"]["name"] = T_Giza
    /\ RowsOf(patients, 2) = {}

\* The update being handled is with the engine or about to be answered.
InFlight(h) == h.pc \in {"groq", "gemini", "reply"}

\* C30: HakeemBot neither de-duplicates nor cancels.  A text received while
\* an earlier one is being handled joins the queue even when it equals a text
\* waiting or in flight, and receiving it changes nothing of the handling in
\* progress; the handling of a text, once begun, keeps its user and text
\* until it ends, and ends only by sending its own reply after exactly one
\* engine invocation; the update at the head of the queue is then taken in its
\* turn, whatever it is, a non-empty text message going to the engine.
C30_NoDedupNoCancel ==
    [][/\ budget' < budget
            => /\ Len(update_queue') = Len(update_queue) + 1
               /\ SubSeq(update_queue', 1, Len(update_queue)) = update_queue
               /\ hk' = hk
               /\ hk_log' = hk_log
               /\ hk_chats' = hk_chats
       /\ InFlight(hk)
            => /\ hk'.user = hk.user
               /\ hk'.text = hk.text
               /\ Len(update_queue') >= Len(update_queue)
               /\ hk'.pc = "done"
                    => /\ hk.pc = "reply"
                       /\ EventsAmong(hk_log', {"groq_call"}) = <<"groq_call">>
                       /\ Len(EventsAmong(hk_log', {"send_answer", "send_api_error"})) = 1
       /\ Len(update_queue') < Len(update_queue)
            => /\ ~InFlight(hk)
               /\ update_queue' = Tail(update_queue)
               /\ hk'.user = Head(update_queue).user
               /\ hk'.text = Head(update_queue).text
               /\ EventsAmong(hk_log', {"groq_call", "send_answer", "send_api_error"}) = <<>>
               /\ (HkRoute(hk'.text) = "handle_message" /\ Strip(hk'.text) # <<>>)
                    => hk'.pc = "groq"
      ]_vars

\* C30 witness: the first of three equal texts was answered and saved, the
\* second has its answer from the provider and is about to be answered, while
\* the third, received meanwhile, waits in the queue.
C30_Witness ==
    /\ hk.pc = "reply"
    /\ hk.user = 1
    /\ hk.text = T_Question
    /\ Truthy(hk.response)
    /\ update_queue = <<[user |-> 1, text |-> T_Question]>>
    /\ \E r \in hk_chats : r.telegram_id = 1 /\ r.user_message = T_Question
    /\ budget = 0

ChatOutcomeOf(log) ==
    IF \E i \in 1..Len(log) : log[i].ev = "request_outcome"
    THEN (CHOOSE e \in {log[i] : i \in 1..Len(log)} :
             e.ev = "request_outcome").val.text[1]
    ELSE "none"
\* The store answered get_patient and the user has a record.
HasPatient(log, rows, u) == log = <<DbOp("get_patient", TRUE)>> /\ RowsOf(rows, u) # {}
\* The chat rows of user u holding this response.
ChatRowsWith(u, response) ==
    {r \in chat_history : r.telegram_id = u /\ r.response = response}

\* C32: in the chat mode of main.py a Groq call that times out is treated
\* as an answer: the canned timeout text is sent under the Groq heading and,
\* when the user has a patient record (and the insert succeeds), is written
\* to chat_history as the response under "Groq"; any other Groq failure gets
\* the error reply and writes no chat_history row.
C32_GroqTimeoutIsAnAnswer ==
    [][(last'.handler = "handle_chat" /\ HasEvent(chat_log', "groq_call"))
       => LET u == last'.user
              outcome == ChatOutcomeOf(chat_log')
              saved == HasEvent(chat_log', "save_chat")
                         /\ \A i \in 1..Len(chat_log') :
                               chat_log'[i].ev = "save_chat" => chat_log'[i].ok
          IN /\ outcome = "timeout"
                  => /\ \E i \in 1..Len(chat_log') :
                           /\ chat_log'[i].ev = "send_answer"
                           /\ chat_log'[i].val =
                                 Some(ChatReplyText("Groq", GroqTimeoutText))
                     /\ ~HasEvent(chat_log', "send_error")
                     /\ HasPatient(db_log', patients', u) => HasEvent(chat_log', "save_chat")
                     /\ saved
                          => \E r \in chat_history' \ chat_history :
                                /\ r.telegram_id = u
                                /\ r.message = last'.text
                                /\ r.response = GroqTimeoutText
                                /\ r.api_used = "Groq"
                     /\ ~saved => chat_history' = chat_history
             /\ outcome \in {"error", "http_error"}
                  => /\ HasEvent(chat_log', "send_error")
                     /\ ~HasEvent(chat_log', "send_answer")
                     /\ ~HasEvent(chat_log', "save_chat")
                     /\ chat_history' = chat_history
      ]_vars

\* C32 witness: a patient's question to Groq timed out; the timeout text was
\* sent as the answer and is the response of the chat row.
C32_Witness ==
    /\ last.handler = "handle_chat"
    /\ ChatOutcomeOf(chat_log) = "timeout"
    /\ HasEvent(chat_log, "groq_call")
    /\ HasEvent(chat_log, "send_answer")
    /\ HasPatient(db_log, patients, last.user)
    /\ ChatRowsWith(last.user, GroqTimeoutText) # {}

\* C33: the patient store is modified only by booking_confirm receiving
\* exactly the text of the Confirm button in the Confirm state: every other
\* handler and every other input (an earlier booking step, a cancelled
\* confirmation, the chat dialogue, profile, stats, start, help) leaves the
\* set of patient records, and the row counter, unchanged.
C33_OnlyConfirmWritesPatients ==
    [][(patients' # patients \/ patients_seq' # patients_seq)
       => /\ last'.handler = "booking_confirm"
          /\ last'.text = T_Confirm
          /\ last'.state = STATE_BOOKING_CONFIRM
      ]_vars

\* C33 witness: a whole booking of a user with a record was cancelled by the
\* Cancel button in the Confirm state; the store holds the row it started
\* with and nothing else.
C33_Witness ==
    /\ last.handler = "booking_confirm"
    /\ last.state = STATE_BOOKING_CONFIRM
    /\ last.text = T_CrossCancel
    /\ outbox[1].kind = "booking_cancelled"
    /\ patients = {Row1}
    /\ patients_seq = 1

\* The booking fields the states before a state have collected.
CollectedBefore(state) ==
    IF state = STATE_BOOKING_PHONE THEN {"name"}
    ELSE IF state = STATE_BOOKING_BRANCH THEN {"name", "phone"}
    ELSE IF state = STATE_BOOKING_DATE THEN {"name", "phone", "branch"}
    ELSE IF state = STATE_BOOKING_CONFIRM THEN {"name", "phone", "branch", "date"}
    ELSE {}

\* C34: whenever the booking dialogue of a user is in CollectPhone,
\* CollectBranch, CollectDate or Confirm, the booking data of the session
\* holds every field the preceding states collect, so that booking_get_date
\* and booking_confirm never read a missing field (every booking step
\* reaches its own reply: no KeyError leaves it), after any sequence of
\* messages, re-entry through the choice of the Start state included and
\* whether or not the replies are delivered.
C34_CollectedFieldsHeld ==
    /\ \A u \in Users :
          booking_conv[u] \in {STATE_BOOKING_PHONE, STATE_BOOKING_BRANCH,
                               STATE_BOOKING_DATE, STATE_BOOKING_CONFIRM}
          => /\ HasKey(user_data[u], "booking")
             /\ CollectedBefore(booking_conv[u]) \subseteq DOMAIN user_data[u]["booking"]
    /\ last.handler \in {"booking_get_name", "booking_get_phone", "booking_get_branch",
                          "booking_get_date", "booking_confirm"}
          => FirstReply(reply_log) # "error"

\* C34 witness: the third message of a user with a record.  The first
\* opened the Start state, the second chose "Update Info" or "Proceed with
\* Booking" there, which emptied the booking data again, and the third was
\* taken as the name: the dialogue is in CollectPhone and holds the name.
C34_Witness ==
    /\ budget = MaxMsgs - 3
    /\ last.handler = "booking_get_name"
    /\ last.state = STATE_BOOKING_START
    /\ booking_conv[1] = STATE_BOOKING_PHONE
    /\ user_data[1]["booking"] = SetKey(EmptyDict, "name", T_Giza)

\* C35: every patient record ever persisted has a branch that is one of the
\* configured lowercase branch keys ("cairo" or "sherbin"), after any
\* sequence of booking dialogues.
C35_PersistedBranchIsKnown ==
    \A r \in patients : r.branch \in BRANCHES

\* C35 witness: a booking whose branch was typed "Cairo" was confirmed and
\* persisted in this run under the key "cairo".
C35_Witness ==
    /\ last.handler = "booking_confirm"
    /\ last.text = T_Confirm
    /\ outbox[last.user].kind = "booking_confirmed"
    /\ \E r \in patients :
          /\ r.telegram_id = last.user
          /\ r.id = patients_seq
          /\ r.branch = <<"c", "a", "i", "r", "o">>
          /\ user_data[last.user]["booking"]["branch"] = r.branch

\* The callbacks of the booking dialogue.
BookingSteps == {"book_appointment", "booking_get_name", "booking_get_phone",
                 "booking_get_branch", "booking_get_date", "booking_confirm",
                 "booking_fallback"}

\* C36: the booking and the chat dialogue of one user can be active at the
\* same time, and the booking takes precedence: while a booking dialogue is
\* active every text of the user that is not a command is consumed by a
\* booking step, so it is not forwarded to a provider, and the state of the
\* chat dialogue stays as it was; the booking button pressed in
\* AwaitingQuestion starts a booking instead of being sent as a question.
C36_BookingTakesPrecedence ==
    /\ (last.handler # "none" /\ last.state # END /\ ~FilterCOMMAND(last.text))
          => /\ last.handler \in BookingSteps
             /\ chat_conv[last.user] = last.chat_state
    /\ (/\ last.handler # "none"
        /\ last.state = END
        /\ last.chat_state = STATE_CHAT_INPUT
        /\ last.text = T_BookAppointment)
          => /\ last.handler = "book_appointment"
             /\ booking_conv[last.user] \in {STATE_BOOKING_START, STATE_BOOKING_NAME}
             /\ chat_conv[last.user] = STATE_CHAT_INPUT

\* The callback CommandHandler gives a registered command of main.py to.
CommandCallback(name) ==
    IF name = <<"s","t","a","r","t">> THEN "start"
    ELSE IF name = <<"h","e","l","p">> THEN "help_command"
    ELSE IF name = <<"p","r","o","f","i","l","e">> THEN "show_profile"
    ELSE "stats"

\* C37: while a booking dialogue is active the registered commands /start,
\* /help, /profile and /stats are handled by their own command handlers and
\* leave the state of the dialogue and the booking fields collected so far
\* unchanged, so that the next text that is not a command is still consumed
\* as the input of the pending booking step.
C37_CommandsLeaveBookingAlone ==
    [][LET u == last'.user
           t == last'.text
       IN (booking_conv[u] # END /\ CommandOf(t) \in MainCommandNames)
          => /\ last'.handler = CommandCallback(CommandOf(t))
             /\ booking_conv'[u] = booking_conv[u]
             /\ user_data'[u] = user_data[u]
             /\ patients' = patients
             /\ \A next \in {T_Cairo, T_Confirm, T_Chat, T_BookAppointment} :
                   BookingRoute(booking_conv'[u], next)
                      = BookingRoute(booking_conv[u], next)
      ]_vars

\* C37 witness: /stats was sent while the dialogue waited for the branch;
\* stats refused the user, the dialogue still waits for the branch and holds the
\* name and the phone.
C37_Witness ==
    /\ last.handler = "stats"
    /\ last.text = T_SlashStats
    /\ last.state = STATE_BOOKING_BRANCH
    /\ booking_conv[last.user] = STATE_BOOKING_BRANCH
    /\ DOMAIN user_data[last.user]["booking"] = {"name", "phone"}
    /\ outbox[last.user].kind = "unauthorized"

\* The provider a text chooses in SelectMode: "Groq" in choice is tested
\* before "Gemini" in choice.
ModeChosen(t) == IF Contains(W_Groq, t) THEN "groq" ELSE "gemini"

\* C38: whenever the chat dialogue is in AwaitingQuestion the chat_mode of
\* the session is set and is the provider chosen in the most recent
\* SelectMode step of the user, after "Switch Mode" too: it is written by
\* the SelectMode step that enters AwaitingQuestion and by no other step, and
\* handle_chat always finds it, so that its default 'groq' never selects the
\* provider.
C38_ChatModeIsLastChoice ==
    [][\A u \in {1} :
          LET selects == last'.handler = "select_chat_mode" /\ last'.user = u
          IN /\ chat_conv'[u] = STATE_CHAT_INPUT => HasKey(user_data'[u], "chat_mode")
             /\ (selects /\ chat_conv'[u] = STATE_CHAT_INPUT)
                  => user_data'[u]["chat_mode"] = ModeChosen(last'.text)
             /\ (~selects /\ HasKey(user_data'[u], "chat_mode"))
                  => /\ HasKey(user_data[u], "chat_mode")
                     /\ user_data'[u]["chat_mode"] = user_data[u]["chat_mode"]
             /\ (last'.handler = "handle_chat" /\ last'.user = u)
                  => /\ HasKey(user_data[u], "chat_mode")
                     /\ EventsAmong(chat_log', {"groq_call", "gemini_call"}) =
                           IF user_data[u]["chat_mode"] = "groq"
                           THEN <<"groq_call">> ELSE <<"gemini_call">>
      ]_vars

\* C38 witness: a question had gone to Groq, the mode chosen first; after
\* "Switch Mode" Gemini was chosen, and the session now names Gemini in
\* AwaitingQuestion.
C38_Witness ==
    /\ last.handler = "select_chat_mode"
    /\ last.text = T_GeminiDeepAnalysis
    /\ last.chat_state = STATE_CHAT_MODE
    /\ chat_conv[1] = STATE_CHAT_INPUT
    /\ user_data[1]["chat_mode"] = "gemini"
    /\ HasEvent(chat_log, "groq_call")
    /\ budget = MaxMsgs - 5

\* C39: for every patient record created_at equals updated_at after any
\* sequence of upserts: a repeat booking deletes the row and inserts it anew,
\* so the record gets a new row id, larger than every id given before, and
\* its created_at is the time of the latest booking, not that of the first;
\* the "Registered" time of the profile is thus that of the latest booking.
C39_CreatedAtIsLastBooking ==
    [][/\ \A r \in patients' : r.created_at = r.updated_at
       /\ \A r \in patients' \ patients :
             /\ r.created_at = elapsed
             /\ r.id = patients_seq'
             /\ \A old \in patients : r.id > old.id
             /\ RowsOf(patients', r.telegram_id) = {r}
       /\ (last'.handler = "show_profile" /\ outbox'[last'.user].kind = "profile")
             => \E r \in patients :
                   /\ r.telegram_id = last'.user
                   /\ outbox'[last'.user].n = r.created_at
      ]_vars

\* C39 witness: the record of user 1, created at time 0 under id 1, was
\* replaced by a booking confirmed later: it has a new id and the later time
\* as its created_at.
C39_Witness ==
    /\ last.handler = "booking_confirm"
    /\ outbox[1].kind = "booking_confirmed"
    /\ elapsed > 0
    /\ \E r \in patients :
          /\ patients = {r}
          /\ r.telegram_id = 1
          /\ r.id = 2
          /\ r.created_at = elapsed
          /\ r.updated_at = elapsed

\* The replies that close the handling of a message.
FinalSends == {"send_answer", "send_api_error", "send_empty_input",
               "send_error_response"}
\* The places of a log where the events of a set are.
EventsAt(log, evs) == {i \in 1..Len(log) : log[i].ev \in evs}
\* The text a provider yielded in the run a log records, if any did.
YieldedTexts(log) ==
    {log[i].val.text : i \in {j \in EventsAt(log, {"groq_return", "gemini_return"}) : log[j].ok}}
\* What handle_message has done for the message it has finished with, when
\* the sends of its replies succeeded.
FinalReplyOf(log, text) ==
    IF Strip(text) = <<>>
    THEN /\ EventsAt(log, FinalSends) = {Len(log)}
         /\ log[Len(log)].ev = "send_empty_input"
         /\ EventsAt(log, {"send_thinking", "groq_call", "gemini_call",
                           "groq_http", "gemini_http"}) = {}
    ELSE /\ EventsAt(log, FinalSends) = {Len(log)}
         /\ IF YieldedTexts(log) # {}
            THEN /\ log[Len(log)].ev = "send_answer"
                 /\ \E answer \in YieldedTexts(log) :
                       /\ YieldedTexts(log) = {answer}
                       /\ log[Len(log)].val = Some(AnswerHeading \o Truncate(answer))
            ELSE log[Len(log)].ev = "send_api_error"
         /\ (\E i \in EventsAt(log, {"send_thinking"}) : log[i].ok)
               => EventsAt(log, {"delete_thinking"}) = {Len(log) - 1}

\* C40: in the catch-all handler every non-blank text is, once the provider
\* calls have returned or timed out, answered: the handling reaches its end,
\* and when the sends of the replies succeeded the log ends with exactly one
\* final reply, the answer when a provider yielded text and the
\* service-unavailable message otherwise; when the placeholder was sent its
\* deletion is attempted just before that reply, whether or not the deletion
\* succeeds. A blank text gets the empty-input reply alone, with no
\* placeholder and no provider call.
C40_EveryTextGetsOneFinalReply ==
    /\ [](hk.pc = "done" /\ (\A i \in EventsAt(hk_log, FinalSends) : hk_log[i].ok)
             => FinalReplyOf(hk_log, hk.text))
    /\ \A t \in AnswerTexts :
          (hk.pc \in {"groq", "gemini", "reply"} /\ hk.text = t)
             ~> (hk.pc = "done" /\ hk.text = t
                    /\ EventsAt(hk_log, FinalSends) # {})

\* C40 witness: a question was answered by Gemini after Groq timed out or
\* failed, the placeholder had been sent and its deletion failed, and the
\* answer was sent all the same.
C40_Witness ==
    /\ hk.pc = "done"
    /\ hk.text = T_Question
    /\ hk_log[2] = Ev("send_thinking", TRUE, None)
    /\ \E i \in 1..Len(hk_log) : hk_log[i] = Ev("groq_http", FALSE, None)
    /\ hk_log[Len(hk_log) - 1] = Ev("delete_thinking", FALSE, None)
    /\ hk_log[Len(hk_log)] = Ev("send_answer", TRUE, Some(AnswerHeading \o GeminiAnswer))
====
